---- MODULE Spec2Model ----
(***************************************************************************)
(* Memscend memory core: the ingest / retrieval pipeline of                *)
(* core/services.py over the Qdrant repository, the normalization client   *)
(* and the write policy.                                                   *)
(*                                                                         *)
(* Texts are sequences of one-character strings, so that strip(), len()    *)
(* and splitlines() are computed character by character.  Identifiers      *)
(* (org, agent, user) are strings; "a" \o "b" is string concatenation.     *)
(* uuid5 and sha256 are modelled as injective on the byte string they      *)
(* digest, so an id or a hash IS the string that was digested.             *)
(* Timestamps are integer ticks, TicksPerDay ticks to a day.               *)
(* `tasks` holds the add calls that are suspended at an await; the         *)
(* operations of Next run without another coroutine in between.            *)
(* Scores are fixed point: raw scores in 1/1000, decayed ones in 1/10^9.   *)
(***************************************************************************)
EXTENDS Integers, Sequences, FiniteSets, TLC

VARIABLES store, now, repositories, collections, indexes, last, world, tasks,
          reranker_available, session, jwks_cache, lock

vars ==
    <<store, now, repositories, collections, indexes, last, world, tasks,
      reranker_available, session, jwks_cache, lock>>

(***************************************************************************)
(* Bounds of the model.                                                    *)
(***************************************************************************)
MaxDays == 1
TicksPerDay == 2
MaxLimit == 1
MaxTasks == 2

(***************************************************************************)
(* Python values.                                                          *)
(***************************************************************************)
None == [some |-> FALSE]
Some(v) == [some |-> TRUE, val |-> v]

Range(s) == {s[i] : i \in 1..Len(s)}

Min(a, b) == IF a <= b THEN a ELSE b

Max(a, b) == IF a >= b THEN a ELSE b

\* "".join(chars): the string a character sequence spells
RECURSIVE Str(_)
Str(cs) == IF cs = <<>> THEN "" ELSE Head(cs) \o Str(Tail(cs))

Whitespace == {" ", "\n", "\t"}

RECURSIVE LStrip(_, _)
LStrip(cs, drop) ==
    IF cs # <<>> /\ Head(cs) \in drop THEN LStrip(Tail(cs), drop) ELSE cs

RECURSIVE RStrip(_, _)
RStrip(cs, drop) ==
    IF cs # <<>> /\ cs[Len(cs)] \in drop
    THEN RStrip(SubSeq(cs, 1, Len(cs) - 1), drop)
    ELSE cs

\* str.strip(chars): both ends, every leading / trailing character in drop
StripChars(cs, drop) == RStrip(LStrip(cs, drop), drop)

\* str.strip()
Strip(cs) == StripChars(cs, Whitespace)

(***************************************************************************)
(* core/utils.py                                                           *)
(***************************************************************************)
\* the name digested into the per-tenant namespace uuid
NamespaceName(org_id, agent_id) == "memory::" \o org_id \o "::" \o agent_id

\* an id that also depends on the time of the call, as a uuid1 would
make_id_uuid1(org_id, agent_id, text) ==
    <<NamespaceName(org_id, agent_id), Str(text), now>>

make_id(org_id, agent_id, text) ==
    <<NamespaceName(org_id, agent_id), Str(text)>>

compute_hash(org_id, agent_id, user_id, text) ==
    org_id \o "|" \o agent_id \o "|" \o user_id \o "|" \o Str(text)

HALF_LIFE_DAYS == 90

\* 0.5 ** (r / 90) for r = 0 .. 89, in millionths
PowHalfTable ==
    <<
      1000000, 992328, 984715, 977160, 969663, 962224, 954842, 947516, 940247,
      933033, 925875, 918771, 911722, 904728, 897787, 890899, 884064, 877281,
      870551, 863872, 857244, 850667, 844141, 837665, 831238, 824861, 818532,
      812252, 806021, 799837, 793701, 787611, 781569, 775572, 769622, 763718,
      757858, 752044, 746274, 740549, 734867, 729229, 723635, 718083, 712574,
      707107, 701682, 696298, 690956, 685655, 680395, 675175, 669995, 664855,
      659754, 654692, 649669, 644685, 639739, 634831, 629961, 625127, 620331,
      615572, 610850, 606163, 601513, 596898, 592318, 587774, 583265, 578790,
      574349, 569943, 565570, 561231, 556925, 552652, 548412, 544205, 540030,
      535887, 531775, 527696, 523647, 519630, 515643, 511687, 507761, 503866
    >>

RECURSIVE Pow2(_)
Pow2(n) == IF n = 0 THEN 1 ELSE 2 * Pow2(n - 1)

\* 0.5 ** (days / half_life_days), in millionths; 0 once it is below 1e-6
decay_factor(days) ==
    LET q == days \div HALF_LIFE_DAYS
        r == days % HALF_LIFE_DAYS
    IN IF q >= 20 THEN 0 ELSE PowHalfTable[r + 1] \div Pow2(q)

\* (now - created_at).days
WholeDays(created_at, t) == (t - created_at) \div TicksPerDay

\* score in thousandths, result in 1e-9
apply_time_decay(score, created_at, t) ==
    score * decay_factor(Max(WholeDays(created_at, t), 0))

(***************************************************************************)
(* core/config/models.py: the configuration the core is constructed with.  *)
(* Organisation "o1" switches LLM normalization off; its agent "a2" also   *)
(* switches deduplication off.  Organisation "o3" switches normalization   *)
(* off and sets max_batch to 2; organisation "o4" switches it off and sets *)
(* embedding_dims to 512 and retrieval.top_k to 1.  Every other org gets   *)
(* the defaults.                                                           *)
(***************************************************************************)
DEFAULT_SCOPES == {"prefs", "facts", "persona", "constraints"}

WritePolicy(dedup, normalize) ==
    [enabled_scopes |-> DEFAULT_SCOPES, min_chars |-> 12,
     deduplicate |-> dedup, normalize_with_llm |-> normalize, max_batch |-> 32]

RetrievalPolicy == [top_k |-> 6, ef_search |-> 64, include_text |-> TRUE]

CollectionPolicy == [name |-> "memories", vector_size |-> 768]

TenantOverrides(write, retrieval, collection, model, embedding_dims) ==
    [write |-> write, retrieval |-> retrieval, collection |-> collection,
     model |-> model, embedding_dims |-> embedding_dims]

NoOverrides == TenantOverrides(None, None, None, None, None)

Settings ==
    [core |->
        [write |-> WritePolicy(TRUE, TRUE),
         retrieval |-> RetrievalPolicy,
         collection |-> CollectionPolicy,
         model |-> "openrouter/auto",
         embedding_dims |-> 768,
         organisations |->
            [o \in {"o1", "o3", "o4"} |->
                IF o = "o3"
                THEN [base |-> TenantOverrides(
                                  Some([WritePolicy(TRUE, FALSE) EXCEPT !.max_batch = 2]),
                                  None, None, None, None),
                      agents |-> <<>>]
                ELSE IF o = "o4"
                THEN [base |-> TenantOverrides(Some(WritePolicy(TRUE, FALSE)),
                                               Some([RetrievalPolicy EXCEPT
                                                        !.top_k = 1]),
                                               None, None, Some(512)),
                      agents |-> <<>>]
                ELSE
                [base |-> TenantOverrides(Some(WritePolicy(TRUE, FALSE)),
                                          None, None, None, None),
                 agents |->
                    [a \in {"a2"} |->
                        TenantOverrides(Some(WritePolicy(FALSE, FALSE)),
                                        None, None, None, None)]]]]]

(***************************************************************************)
(* core/services.py: configuration helpers                                 *)
(***************************************************************************)
\* Python's `a or b` on optional values
Or(a, b) == IF a.some THEN a ELSE b

\* Python's `a or b` on optional strings: the empty string is falsy as well
OrStr(a, b) == IF a.some /\ a.val # "" THEN a ELSE b

\* a resolver that takes the agent's entry whole and forgets the org's
resolve_agent_only(organisations, org_id, agent_id) ==
    IF org_id \notin DOMAIN organisations THEN NoOverrides
    ELSE IF agent_id \in DOMAIN organisations[org_id].agents
         THEN organisations[org_id].agents[agent_id]
         ELSE organisations[org_id].base

\* _resolve_overrides over the organisations of the configuration
resolve_overrides(organisations, org_id, agent_id) ==
    IF org_id \notin DOMAIN organisations THEN NoOverrides
    ELSE LET org_config == organisations[org_id]
             resolved == org_config.base
         IN IF agent_id # "" /\ agent_id \in DOMAIN org_config.agents
            THEN LET agent == org_config.agents[agent_id] IN
                 TenantOverrides(Or(agent.write, resolved.write),
                                 Or(agent.retrieval, resolved.retrieval),
                                 Or(agent.collection, resolved.collection),
                                 OrStr(agent.model, resolved.model),
                                 Or(agent.embedding_dims, resolved.embedding_dims))
            ELSE resolved

_resolve_overrides(org_id, agent_id) ==
    resolve_overrides(Settings.core.organisations, org_id, agent_id)

_build_policy_engine(overrides) == Or(overrides.write, Some(Settings.core.write)).val

_resolve_top_k(overrides) ==
    Or(overrides.retrieval, Some(Settings.core.retrieval)).val.top_k

(***************************************************************************)
(* core/policies.py                                                        *)
(***************************************************************************)
should_persist(policy, text, scope) ==
    /\ ~(text = <<>> \/ Len(Strip(text)) < policy.min_chars)
    /\ scope \in policy.enabled_scopes

(***************************************************************************)
(* json.loads, on the JSON the chat endpoint can answer with: arrays,      *)
(* objects, strings without escapes, true / false / null, digit strings.   *)
(* A value is [t |-> "list", items], [t |-> "dict", keys, vals],           *)
(* [t |-> "str", s], [t |-> "bool", b], [t |-> "num", s] or [t |-> "null"].*)
(***************************************************************************)
JsonWhitespace == {" ", "\n", "\t", "\r"}

Digits == {"0", "1", "2", "3", "4", "5", "6", "7", "8", "9"}

JsonNull == [t |-> "null"]

JsonFail == [ok |-> FALSE, val |-> JsonNull, next |-> 0]

JsonOk(v, n) == [ok |-> TRUE, val |-> v, next |-> n]

RECURSIVE SkipWs(_, _)
SkipWs(s, i) ==
    IF i <= Len(s) /\ s[i] \in JsonWhitespace THEN SkipWs(s, i + 1) ELSE i

\* index of the first character from i on that is not in keep
RECURSIVE SpanEnd(_, _, _)
SpanEnd(s, i, keep) ==
    IF i <= Len(s) /\ s[i] \in keep THEN SpanEnd(s, i + 1, keep) ELSE i

\* index of the first `ch` from i on, or Len(s) + 1
RECURSIVE Find(_, _, _)
Find(s, i, ch) ==
    IF i <= Len(s) /\ s[i] # ch THEN Find(s, i + 1, ch) ELSE i

HasAt(s, i, word) ==
    /\ i + Len(word) - 1 <= Len(s)
    /\ SubSeq(s, i, i + Len(word) - 1) = word

ParseString(s, i) ==
    LET j == Find(s, i + 1, "\"") IN
    IF j > Len(s) \/ "\\" \in Range(SubSeq(s, i + 1, j - 1)) THEN JsonFail
    ELSE JsonOk([t |-> "str", s |-> SubSeq(s, i + 1, j - 1)], j + 1)

RECURSIVE ParseValue(_, _)
RECURSIVE ParseItems(_, _, _, _)
RECURSIVE ParseMembers(_, _, _, _, _)

\* the elements of an array, i at the first character after "[" or ","
ParseItems(s, i, acc, first) ==
    IF i > Len(s) THEN JsonFail
    ELSE IF first /\ s[i] = "]" THEN JsonOk([t |-> "list", items |-> acc], i + 1)
    ELSE LET v == ParseValue(s, i) IN
         IF ~v.ok THEN JsonFail
         ELSE LET j == SkipWs(s, v.next) IN
              IF j > Len(s) THEN JsonFail
              ELSE IF s[j] = ","
                   THEN ParseItems(s, SkipWs(s, j + 1), Append(acc, v.val), FALSE)
              ELSE IF s[j] = "]"
                   THEN JsonOk([t |-> "list", items |-> Append(acc, v.val)], j + 1)
              ELSE JsonFail

\* the members of an object, i at the first character after "{" or ","
ParseMembers(s, i, keys, vals, first) ==
    IF i > Len(s) THEN JsonFail
    ELSE IF first /\ s[i] = "}"
         THEN JsonOk([t |-> "dict", keys |-> keys, vals |-> vals], i + 1)
    ELSE IF s[i] # "\"" THEN JsonFail
    ELSE LET k == ParseString(s, i) IN
         IF ~k.ok THEN JsonFail
         ELSE LET c == SkipWs(s, k.next) IN
              IF c > Len(s) \/ s[Min(c, Len(s))] # ":" THEN JsonFail
              ELSE LET v == ParseValue(s, SkipWs(s, c + 1)) IN
                   IF ~v.ok THEN JsonFail
                   ELSE LET j == SkipWs(s, v.next)
                            ks == Append(keys, k.val.s)
                            vs == Append(vals, v.val)
                        IN IF j > Len(s) THEN JsonFail
                           ELSE IF s[j] = ","
                                THEN ParseMembers(s, SkipWs(s, j + 1), ks, vs, FALSE)
                           ELSE IF s[j] = "}"
                                THEN JsonOk([t |-> "dict", keys |-> ks, vals |-> vs],
                                            j + 1)
                           ELSE JsonFail

ParseValue(s, i) ==
    IF i > Len(s) THEN JsonFail
    ELSE IF s[i] = "[" THEN ParseItems(s, SkipWs(s, i + 1), <<>>, TRUE)
    ELSE IF s[i] = "{" THEN ParseMembers(s, SkipWs(s, i + 1), <<>>, <<>>, TRUE)
    ELSE IF s[i] = "\"" THEN ParseString(s, i)
    ELSE IF HasAt(s, i, <<"t", "r", "u", "e">>)
         THEN JsonOk([t |-> "bool", b |-> TRUE], i + 4)
    ELSE IF HasAt(s, i, <<"f", "a", "l", "s", "e">>)
         THEN JsonOk([t |-> "bool", b |-> FALSE], i + 5)
    ELSE IF HasAt(s, i, <<"n", "u", "l", "l">>) THEN JsonOk(JsonNull, i + 4)
    ELSE IF s[i] \in Digits
         THEN LET j == SpanEnd(s, i, Digits) IN
              JsonOk([t |-> "num", s |-> SubSeq(s, i, j - 1)], j)
    ELSE JsonFail

\* json.loads(content); None stands for JSONDecodeError (parsed = None)
JsonLoads(content) ==
    LET r == ParseValue(content, SkipWs(content, 1)) IN
    IF r.ok /\ SkipWs(content, r.next) > Len(content) THEN Some(r.val) ELSE None

\* dict.get(key): the last member with that key wins; absent -> null
RECURSIVE DictGet(_, _, _)
DictGet(d, key, n) ==
    IF n = 0 THEN JsonNull
    ELSE IF d.keys[n] = key THEN d.vals[n]
    ELSE DictGet(d, key, n - 1)

\* Python truthiness of a JSON value
Truthy(v) ==
    CASE v.t = "bool" -> v.b
      [] v.t = "null" -> FALSE
      [] v.t = "str" -> v.s # <<>>
      [] v.t = "num" -> Range(v.s) # {"0"}
      [] v.t = "list" -> v.items # <<>>
      [] v.t = "dict" -> v.keys # <<>>

(***************************************************************************)
(* core/clients/openrouter.py: normalize_memories                          *)
(***************************************************************************)
ATTEMPTS == 3

KeyMemory == <<"m", "e", "m", "o", "r", "y">>

KeySkip == <<"s", "k", "i", "p">>

\* the loop over the parsed array: the memories of the items not skipped
RECURSIVE NormalizedItems(_)
NormalizedItems(items) ==
    IF items = <<>> THEN <<>>
    ELSE LET item == Head(items)
             memory == IF item.t = "dict"
                       THEN DictGet(item, KeyMemory, Len(item.keys))
                       ELSE JsonNull
             keep == /\ item.t = "dict"
                     /\ ~Truthy(DictGet(item, KeySkip, Len(item.keys)))
                     /\ memory.t = "str"
                     /\ Strip(memory.s) # <<>>
         IN (IF keep THEN <<Strip(memory.s)>> ELSE <<>>)
            \o NormalizedItems(Tail(items))

\* str.splitlines(), on "\n"
RECURSIVE SplitLines(_)
SplitLines(cs) ==
    IF cs = <<>> THEN <<>>
    ELSE LET j == Find(cs, 1, "\n") IN
         <<SubSeq(cs, 1, j - 1)>> \o SplitLines(SubSeq(cs, j + 1, Len(cs)))

\* [line.strip("- ") for line in content.splitlines() if line.strip()]
RECURSIVE FallbackLines(_)
FallbackLines(lines) ==
    IF lines = <<>> THEN <<>>
    ELSE (IF Strip(Head(lines)) # <<>>
          THEN <<StripChars(Head(lines), {"-", " "})>>
          ELSE <<>>)
         \o FallbackLines(Tail(lines))

\* the body of one attempt once the response is in: Some(list) is a return,
\* None means the block ran to its end without returning
ParseContent(raw) ==
    LET content == Strip(raw)
        parsed == JsonLoads(content)
        normalized == IF parsed.some /\ parsed.val.t = "list"
                      THEN NormalizedItems(parsed.val.items)
                      ELSE <<>>
        fallback == FallbackLines(SplitLines(content))
    IN IF normalized # <<>> THEN Some(normalized)
       ELSE IF fallback # <<>> THEN Some(fallback)
       ELSE None

\* replies[n] is what the chat endpoint does on attempt n: an error (transport
\* or HTTP status, or a body without choices[0].message.content) or a content.
\* Every exception in an attempt is retried; after ATTEMPTS failed attempts
\* tenacity raises RetryError, which is caught and the input returned.
RECURSIVE Attempts(_, _, _)
Attempts(payload, replies, n) ==
    IF replies[n].kind = "ok"
    THEN LET got == ParseContent(replies[n].content) IN
         [result |-> IF got.some THEN got.val ELSE payload, attempts |-> n,
          raised |-> FALSE]
    ELSE IF n >= ATTEMPTS
         THEN [result |-> payload, attempts |-> n, raised |-> FALSE]
         ELSE Attempts(payload, replies, n + 1)

\* a client that lets the RetryError of the last attempt out
normalize_memories_raising(payload, replies) ==
    IF payload = <<>> THEN [result |-> <<>>, attempts |-> 0, raised |-> FALSE]
    ELSE LET r == Attempts(payload, replies, 1) IN
         IF replies[r.attempts].kind = "ok" THEN r
         ELSE [result |-> <<>>, attempts |-> r.attempts, raised |-> TRUE]

normalize_memories(payload, replies) ==
    IF payload = <<>> THEN [result |-> <<>>, attempts |-> 0, raised |-> FALSE]
    ELSE Attempts(payload, replies, 1)

(***************************************************************************)
(* core/clients/tei.py: the vector the embedding service returns for a     *)
(* text is a function of the text.                                         *)
(***************************************************************************)
Embed(text) == <<"vec", Str(text)>>

\* stop_after_attempt(3)
TEI_ATTEMPTS == 3

\* the body of a 200 response: one item per input, each with its embedding
TeiOk(payload, model) ==
    [kind |-> "ok",
     data |-> [i \in 1..Len(payload) |-> [embedding |-> <<model, Str(payload[i])>>]]]

\* attempt n posts the request; a transport error, an error status and a body
\* without the expected keys all raise inside the attempt, which tenacity
\* retries until the third attempt and then raises RetryError
RECURSIVE TeiAttempts(_, _)
TeiAttempts(replies, n) ==
    IF replies[n].kind = "ok"
    THEN [result |-> [i \in 1..Len(replies[n].data) |-> replies[n].data[i].embedding],
          attempts |-> n, raised |-> FALSE]
    ELSE IF n >= TEI_ATTEMPTS
         THEN [result |-> <<>>, attempts |-> n, raised |-> TRUE]
         ELSE TeiAttempts(replies, n + 1)

\* a client without the retry loop
embed_once(payload, replies) ==
    IF payload = <<>> THEN [result |-> <<>>, attempts |-> 0, raised |-> FALSE]
    ELSE IF replies[1].kind = "ok" THEN TeiAttempts(replies, 1)
         ELSE [result |-> <<>>, attempts |-> 1, raised |-> TRUE]

embed(payload, replies) ==
    IF payload = <<>> THEN [result |-> <<>>, attempts |-> 0, raised |-> FALSE]
    ELSE TeiAttempts(replies, 1)

(***************************************************************************)
(* core/models.py                                                          *)
(***************************************************************************)
DEFAULT_TTL_DAYS == 365

\* SearchRequest.k
DEFAULT_K == 6

MemoryPayload(org_id, agent_id, user_id, scope, tags, source, ttl_days, created_at, updated_at, deleted, text, dedupe_hash) ==
    [org_id |-> org_id, agent_id |-> agent_id, user_id |-> user_id,
     scope |-> scope, tags |-> tags, source |-> source, ttl_days |-> ttl_days,
     created_at |-> created_at, updated_at |-> updated_at, deleted |-> deleted,
     text |-> text, dedupe_hash |-> dedupe_hash]

MemoryRecord(id, text, payload, vector) ==
    [id |-> id, text |-> text, payload |-> payload, vector |-> vector]

MemoryHit(id, score, text, payload) ==
    [id |-> id, score |-> score, text |-> text, payload |-> payload]

\* MemoryAddRequest.iter_texts
RECURSIVE Truthies(_)
Truthies(texts) ==
    IF texts = <<>> THEN <<>>
    ELSE (IF Head(texts) # <<>> THEN <<Head(texts)>> ELSE <<>>)
         \o Truthies(Tail(texts))

iter_texts(request) == Truthies(<<request.text>> \o request.messages)

(***************************************************************************)
(* core/storage/qdrant_repository.py.  A point of the collection is        *)
(* [vector, payload]; `points` maps the ids present to their points.       *)
(***************************************************************************)
REQUIRED_INDEXES ==
    <<"org_id", "agent_id", "user_id", "scope", "tags", "dedupe_hash",
      "deleted", "created_at", "updated_at">>

\* the calls _ensure_payload_indexes issues, given the schema it read
RECURSIVE IndexCalls(_, _)
IndexCalls(fields, schema) ==
    IF fields = <<>> THEN <<>>
    ELSE LET f == Head(fields) IN
         (IF f \in DOMAIN schema
          THEN IF f = "org_id"
               THEN IF schema[f] THEN <<>>
                    ELSE <<"qdrant.delete_payload_index", "qdrant.create_payload_index">>
               ELSE <<>>
          ELSE <<"qdrant.create_payload_index">>)
         \o IndexCalls(Tail(fields), schema)

\* ensure_collection: [calls, collections, indexes] after it
ensure_collection(name, colls, schema) ==
    [calls |-> <<"qdrant.get_collections">>
               \o (IF name \in colls THEN <<>> ELSE <<"qdrant.create_collection">>)
               \o <<"qdrant.get_collection">>
               \o IndexCalls(REQUIRED_INDEXES, schema),
     collections |-> colls \cup {name},
     indexes |-> [f \in DOMAIN schema \cup Range(REQUIRED_INDEXES) |->
                    IF f = "org_id" THEN TRUE
                    ELSE IF f \in DOMAIN schema THEN schema[f] ELSE FALSE]]

Matches(point, org_id, agent_id) ==
    /\ point.payload.org_id = org_id
    /\ point.payload.agent_id = agent_id

\* _build_filter: must(org_id, agent_id[, scope][, tags any-of])
_build_filter(point, org_id, agent_id, scope, tags) ==
    /\ Matches(point, org_id, agent_id)
    /\ (scope.some /\ scope.val # "") => point.payload.scope = scope.val
    /\ tags # <<>> => Range(point.payload.tags) \cap Range(tags) # {}

RECURSIVE upsert(_, _)
upsert(points, records) ==
    IF records = <<>> THEN points
    ELSE LET r == Head(records)
             point == [vector |-> r.vector, payload |-> r.payload]
         IN upsert([i \in DOMAIN points \cup {r.id} |->
                        IF i = r.id THEN point ELSE points[i]],
                   Tail(records))

\* get: the record without its vector, or None
get(points, memory_id) ==
    IF memory_id \in DOMAIN points
    THEN Some(MemoryRecord(memory_id, points[memory_id].payload.text,
                           points[memory_id].payload, None))
    ELSE None

RECURSIVE get_many(_, _)
get_many(points, memory_ids) ==
    IF memory_ids = <<>> THEN <<>>
    ELSE (IF Head(memory_ids) \in DOMAIN points
          THEN <<get(points, Head(memory_ids)).val>>
          ELSE <<>>)
         \o get_many(points, Tail(memory_ids))

\* delete / delete_many: the points selected by id are removed
delete_many(points, memory_ids) ==
    [i \in DOMAIN points \ Range(memory_ids) |-> points[i]]

\* set_payload: the payload of an existing point is overwritten
set_payload(points, record) ==
    IF record.id \in DOMAIN points
    THEN [points EXCEPT ![record.id].payload = record.payload]
    ELSE points

\* a soft delete that leaves an already deleted record as it is
soft_delete_once(points, memory_id, t) ==
    LET record == get(points, memory_id) IN
    IF ~record.some \/ record.val.payload.deleted THEN points
    ELSE set_payload(points,
            [record.val EXCEPT !.payload.deleted = TRUE, !.payload.updated_at = t])

\* a soft delete that stamps updated_at from a clock a day behind
soft_delete_behind(points, memory_id, t) ==
    LET record == get(points, memory_id) IN
    IF ~record.some THEN points
    ELSE set_payload(points,
            [record.val EXCEPT !.payload.deleted = TRUE,
                               !.payload.updated_at = t - TicksPerDay])

soft_delete(points, memory_id, t) ==
    LET record == get(points, memory_id) IN
    IF ~record.some THEN points
    ELSE set_payload(points,
            [record.val EXCEPT !.payload.deleted = TRUE, !.payload.updated_at = t])

\* a lookup that also leaves out the soft-deleted points
find_by_hash_live(points, order, dedupe_hash, org_id, agent_id) ==
    LET ids == SelectSeq(order,
                         LAMBDA i : /\ Matches(points[i], org_id, agent_id)
                                    /\ points[i].payload.dedupe_hash = dedupe_hash
                                    /\ ~points[i].payload.deleted)
    IN IF ids = <<>> THEN None ELSE get(points, ids[1])

\* find_by_hash: scroll with must(org, agent, dedupe_hash), limit 1; a scroll
\* yields the ids the filter admits in the order `order` the store walks them
find_by_hash(points, order, dedupe_hash, org_id, agent_id) ==
    LET ids == SelectSeq(order,
                         LAMBDA i : /\ Matches(points[i], org_id, agent_id)
                                    /\ points[i].payload.dedupe_hash = dedupe_hash)
    IN IF ids = <<>> THEN None ELSE get(points, ids[1])

\* a filter that never looks at the deleted flag
ListFilterAll(point, org_id, agent_id, include_deleted) ==
    Matches(point, org_id, agent_id)

\* list_recent: the scroll filter
ListFilter(point, org_id, agent_id, include_deleted) ==
    /\ Matches(point, org_id, agent_id)
    /\ ~include_deleted => point.payload.deleted = FALSE

LOWER ==
    [c \in {"A", "B", "C", "D", "E", "F", "G", "H", "I", "J", "K", "L", "M", "N",
            "O", "P", "Q", "R", "S", "T", "U", "V", "W", "X", "Y", "Z"} |->
        CASE c = "A" -> "a" [] c = "B" -> "b" [] c = "C" -> "c" [] c = "D" -> "d"
          [] c = "E" -> "e" [] c = "F" -> "f" [] c = "G" -> "g" [] c = "H" -> "h"
          [] c = "I" -> "i" [] c = "J" -> "j" [] c = "K" -> "k" [] c = "L" -> "l"
          [] c = "M" -> "m" [] c = "N" -> "n" [] c = "O" -> "o" [] c = "P" -> "p"
          [] c = "Q" -> "q" [] c = "R" -> "r" [] c = "S" -> "s" [] c = "T" -> "t"
          [] c = "U" -> "u" [] c = "V" -> "v" [] c = "W" -> "w" [] c = "X" -> "x"
          [] c = "Y" -> "y" [] c = "Z" -> "z"]

\* str.lower()
Lower(cs) == [i \in 1..Len(cs) |-> IF cs[i] \in DOMAIN LOWER THEN LOWER[cs[i]] ELSE cs[i]]

\* needle in text
Contains(text, needle) ==
    \E i \in 1..(Len(text) - Len(needle) + 1) :
        SubSeq(text, i, i + Len(needle) - 1) = needle

PAGE_SIZE == 100

\* the for loop over one page: the matches of the page are appended in order
\* and the loop breaks once an append brings the list to `limit`
ScanPage(points, page, needle, limit, records) ==
    LET hits == SelectSeq(page,
                          LAMBDA i : Contains(Lower(points[i].payload.text), needle))
        room == Max(limit - Len(records), 1)
    IN records \o [n \in 1..Min(Len(hits), room) |-> get(points, hits[n]).val]

\* the while loop: `stream` is the ids the filter admits, in scroll order,
\* `offset` the index the next page starts at; [records, scrolls]
RECURSIVE ScanPages(_, _, _, _, _, _, _)
ScanPages(points, stream, needle, limit, offset, records, scrolls) ==
    IF ~(Len(records) < limit) THEN [records |-> records, scrolls |-> scrolls]
    ELSE LET page == SubSeq(stream, offset, Min(offset + PAGE_SIZE - 1, Len(stream)))
             more == ScanPage(points, page, needle, limit, records)
         IN IF page = <<>> THEN [records |-> records, scrolls |-> scrolls + 1]
            ELSE IF offset + PAGE_SIZE > Len(stream)
                 THEN [records |-> more, scrolls |-> scrolls + 1]
                 ELSE ScanPages(points, stream, needle, limit, offset + PAGE_SIZE,
                                more, scrolls + 1)

\* a scan that stops after the first page
search_text_first_page(points, order, org_id, agent_id, query, limit, include_deleted) ==
    LET stream == SelectSeq(order,
                            LAMBDA i : ListFilter(points[i], org_id, agent_id,
                                                  include_deleted))
    IN [records |-> ScanPage(points, SubSeq(stream, 1, Min(PAGE_SIZE, Len(stream))),
                             Lower(query), limit, <<>>),
        scrolls |-> 1]

search_text(points, order, org_id, agent_id, query, limit, include_deleted) ==
    ScanPages(points,
              SelectSeq(order,
                        LAMBDA i : ListFilter(points[i], org_id, agent_id,
                                              include_deleted)),
              Lower(query), limit, 1, <<>>, 0)

(***************************************************************************)
(* The clients of one behaviour.                                           *)
(***************************************************************************)
TextCall == <<"C", "a", "l", "l", " ", "m", "o", "m", " ", "n", "o", "w">>

TextTea ==
    <<"L", "i", "k", "e", "s", " ", "g", "r", "e", "e", "n", " ", "t", "e", "a">>

TextHi == <<"h", "i">>

\* 14 characters, 11 once stripped
TextPadded ==
    <<" ", " ", "h", "e", "l", "l", "o", " ", "w", "o", "r", "l", "d", " ">>

ContentJsonTea ==
    <<"[", "{", "\"", "m", "e", "m", "o", "r", "y", "\"", ":", " ", "\"", "L", "i",
      "k", "e", "s", " ", "g", "r", "e", "e", "n", " ", "t", "e", "a", "\"", ",",
      " ", "\"", "s", "k", "i", "p", "\"", ":", " ", "f", "a", "l", "s", "e", "}",
      "]">>

ContentJsonSkipped ==
    <<"[", "{", "\"", "m", "e", "m", "o", "r", "y", "\"", ":", " ", "\"", "\"", ",",
      " ", "\"", "s", "k", "i", "p", "\"", ":", " ", "t", "r", "u", "e", "}", "]">>

ContentLines ==
    <<"-", " ", "L", "i", "k", "e", "s", " ", "g", "r", "e", "e", "n", " ", "t", "e",
      "a", "\n", "-", " ", "C", "a", "l", "l", " ", "m", "o", "m", " ", "n", "o",
      "w">>

ContentEmptyArray == <<"[", "]">>

ContentBlank == <<" ", " ">>

ReplyError == [kind |-> "error", content |-> <<>>]

ReplyOk(content) == [kind |-> "ok", content |-> content]

AllFail == [n \in 1..ATTEMPTS |-> ReplyError]

AddRequest(user_id, text, messages, scope) ==
    [user_id |-> user_id, text |-> text, messages |-> messages, scope |-> scope,
     tags |-> <<>>, source |-> None, ttl_days |-> DEFAULT_TTL_DAYS]

\* SearchRequest: a request that names no k carries the default, 6
SearchRequest(query, k, scope, tags) ==
    [query |-> query, k |-> IF k.some THEN k.val ELSE DEFAULT_K, scope |-> scope,
     tags |-> tags]

UpdateRequest(text, scope, deleted) ==
    [text |-> text, tags |-> None, scope |-> scope, ttl_days |-> None,
     deleted |-> deleted]

TenantA == <<"o1", "a1">>

TenantB == <<"o1", "a2">>

TenantC == <<"o2", "a1">>

\* Each behaviour is played by a small cast: its tenants, its users, the
\* bodies of their add requests, the scopes they name, the texts they patch
\* in with update and what the chat endpoint may answer.
World(tenants, users, adds, scopes, edits, replies) ==
    [tenants |-> tenants, users |-> users, adds |-> adds, scopes |-> scopes,
     edits |-> edits, replies |-> replies]

Single(text) == [text |-> text, messages |-> <<>>]

\* two agents of one organisation, deduplication on for the first only
WorldTenants ==
    World({TenantA, TenantB}, {"u1"}, {Single(TextCall)}, {None}, {<<>>}, {AllFail})

\* two users of one tenant
WorldUsers ==
    World({TenantA}, {"u1", "u2"}, {Single(TextCall)}, {None}, {<<>>, TextTea},
          {AllFail})

\* one user whose requests the write policy accepts, rejects or splits
WorldPolicy ==
    World({TenantA}, {"u1"},
          {Single(TextCall), Single(TextPadded),
           [text |-> <<>>, messages |-> <<TextHi, TextPadded>>]},
          {None, Some("bogus")}, {<<>>}, {AllFail})

\* a tenant with the default policy: the chat endpoint normalizes its texts
WorldLlm ==
    World({TenantC}, {"u1"}, {Single(TextCall), Single(TextHi)}, {None}, {<<>>},
          {AllFail,
           [n \in 1..ATTEMPTS |-> IF n < ATTEMPTS THEN ReplyError
                                  ELSE ReplyOk(ContentJsonTea)],
           [n \in 1..ATTEMPTS |-> ReplyOk(ContentLines)],
           [n \in 1..ATTEMPTS |-> ReplyOk(ContentBlank)]})

Worlds == {WorldTenants, WorldUsers, WorldPolicy, WorldLlm}

\* one user whose requests carry several texts: some the write policy drops,
\* some already stored, one twice
WorldBatch ==
    World({TenantA}, {"u1"},
          {Single(TextTea),
           [text |-> TextCall, messages |-> <<TextHi, TextTea, TextPadded>>],
           [text |-> TextCall, messages |-> <<TextCall>>]},
          {None}, {<<>>}, {AllFail})

\* a text and a user id with the separator of compute_hash in them
TextTeaCall ==
    <<"t", "e", "a", "|", "C", "a", "l", "l", " ", "m", "o", "m", " ", "n", "o", "w">>

\* callers of one tenant whose add calls run concurrently
WorldRace ==
    World({TenantA}, {"u1", "u1|tea"}, {Single(TextCall), Single(TextTeaCall)},
          {None}, {<<>>}, {AllFail})

RawScores == {895, 900}

Perms(S) ==
    {f \in [1..Cardinality(S) -> S] : \A i, j \in 1..Cardinality(S) : i # j => f[i] # f[j]}

\* the lists of at most two distinct ids over S
IdLists(S) ==
    {<<>>} \cup {<<i>> : i \in S} \cup {p \in S \X S : p[1] # p[2]}

MissingId == <<"memory::none", "">>

(***************************************************************************)
(* core/services.py: MemoryCore                                            *)
(***************************************************************************)
DefaultCollection == Settings.core.collection

\* _get_repository / _ensure_repository: the repository is cached under its key
\* and ensure_collection runs
Ensured(overrides) ==
    LET policy == Or(overrides.collection, Some(DefaultCollection)).val
        e == ensure_collection(policy.name, collections, indexes)
    IN [repositories |-> repositories \cup {<<policy.name, policy.vector_size>>},
        collections |-> e.collections, indexes |-> e.indexes, calls |-> e.calls]

EnsureRepository(e) ==
    /\ repositories' = e.repositories
    /\ collections' = e.collections
    /\ indexes' = e.indexes

Outcome(op, org_id, agent_id, req, result, calls, error) ==
    [op |-> op, org |-> org_id, agent |-> agent_id, req |-> req, result |-> result,
     calls |-> calls, error |-> error]

RECURSIVE StripAll(_)
StripAll(texts) ==
    IF texts = <<>> THEN <<>>
    ELSE (IF Strip(Head(texts)) # <<>> THEN <<Strip(Head(texts))>> ELSE <<>>)
         \o StripAll(Tail(texts))

RequestScope(request) ==
    IF request.scope.some /\ request.scope.val # "" THEN request.scope.val ELSE "facts"

RECURSIVE Persistable(_, _, _)
Persistable(policy, texts, scope) ==
    IF texts = <<>> THEN <<>>
    ELSE (IF should_persist(policy, Head(texts), scope) THEN <<Head(texts)>> ELSE <<>>)
         \o Persistable(policy, Tail(texts), scope)

\* the loop of add over zip(texts, vectors): [all, new, scrolls]
RECURSIVE AddLoop(_, _, _, _, _, _, _, _)
AddLoop(points, order, org_id, agent_id, request, policy, texts, acc) ==
    IF texts = <<>> THEN acc
    ELSE LET text == Head(texts)
             memory_id == make_id(org_id, agent_id, text)
             dedupe_hash == compute_hash(org_id, agent_id, request.user_id, text)
             existing == IF policy.deduplicate
                         THEN find_by_hash(points, order, dedupe_hash, org_id, agent_id)
                         ELSE None
             payload == MemoryPayload(org_id, agent_id, request.user_id,
                                      RequestScope(request), request.tags,
                                      request.source, request.ttl_days, now, now,
                                      FALSE, text, dedupe_hash)
             record == MemoryRecord(memory_id, text, payload, Some(Embed(text)))
             scrolls == IF policy.deduplicate THEN <<"qdrant.scroll">> ELSE <<>>
         IN AddLoop(points, order, org_id, agent_id, request, policy, Tail(texts),
                    IF existing.some
                    THEN [all |-> Append(acc.all, existing.val), new |-> acc.new,
                          calls |-> acc.calls \o scrolls]
                    ELSE [all |-> Append(acc.all, record),
                          new |-> Append(acc.new, record),
                          calls |-> acc.calls \o scrolls])

RECURSIVE Repeat(_, _)
Repeat(x, n) == IF n = 0 THEN <<>> ELSE <<x>> \o Repeat(x, n - 1)

\* an add that answers with the records it created only
AddPersistNewOnly(org_id, agent_id, req, policy, calls, embed_ok, loop) ==
    IF req.texts = <<>>
    THEN /\ store' = store
         /\ last' = Outcome("add", org_id, agent_id, req, <<>>, calls, "")
    ELSE IF ~embed_ok
    THEN /\ store' = store
         /\ last' = Outcome("add", org_id, agent_id, req, <<>>,
                            calls \o <<"tei.embed">>, "RetryError")
    ELSE /\ store' = upsert(store, loop.new)
         /\ last' = Outcome("add", org_id, agent_id, req, loop.new,
                            calls \o <<"tei.embed">> \o loop.calls
                            \o (IF loop.new # <<>> THEN <<"qdrant.upsert">>
                                ELSE <<>>),
                            "")

\* add, from the embedding of the texts that passed the write policy on
AddPersist(org_id, agent_id, req, policy, calls, embed_ok, loop) ==
    IF req.texts = <<>>
    THEN /\ store' = store
         /\ last' = Outcome("add", org_id, agent_id, req, <<>>, calls, "")
    ELSE IF ~embed_ok
    THEN /\ store' = store
         /\ last' = Outcome("add", org_id, agent_id, req, <<>>,
                            calls \o <<"tei.embed">>, "RetryError")
    ELSE /\ store' = upsert(store, loop.new)
         /\ last' = Outcome("add", org_id, agent_id, req, loop.all,
                            calls \o <<"tei.embed">> \o loop.calls
                            \o (IF loop.new # <<>> THEN <<"qdrant.upsert">>
                                ELSE <<>>),
                            "")

\* add, from the write policy on
AddFiltered(org_id, agent_id, request, replies, policy, calls, embed_ok, order, texts) ==
    AddPersist(org_id, agent_id,
               [request |-> request, replies |-> replies, texts |-> texts], policy,
               calls, embed_ok,
               AddLoop(store, order, org_id, agent_id, request, policy, texts,
                       [all |-> <<>>, new |-> <<>>, calls |-> <<>>]))

\* add, from the outcome of the normalization on
AddNormalized(org_id, agent_id, request, replies, policy, calls, embed_ok, order, norm) ==
    IF norm.raised
    THEN /\ store' = store
         /\ last' = Outcome("add", org_id, agent_id,
                            [request |-> request, replies |-> replies,
                             texts |-> <<>>], <<>>,
                            calls \o Repeat("openrouter.post", norm.attempts),
                            "RetryError")
    ELSE AddFiltered(org_id, agent_id, request, replies, policy,
                     calls \o Repeat("openrouter.post", norm.attempts), embed_ok,
                     order, Persistable(policy, norm.result, RequestScope(request)))

AddCandidates(org_id, agent_id, request, replies, embed_ok, order, policy, calls, candidate_texts) ==
    AddNormalized(org_id, agent_id, request, replies, policy, calls, embed_ok, order,
                  IF candidate_texts # <<>> /\ policy.normalize_with_llm
                  THEN normalize_memories(candidate_texts, replies)
                  ELSE [result |-> candidate_texts, attempts |-> 0,
                        raised |-> FALSE])

AddEnsured(org_id, agent_id, request, replies, embed_ok, order, overrides, e) ==
    /\ EnsureRepository(e)
    /\ UNCHANGED now
    /\ AddCandidates(org_id, agent_id, request, replies, embed_ok, order,
                     _build_policy_engine(overrides), e.calls,
                     StripAll(iter_texts(request)))

Add(org_id, agent_id, request, replies, embed_ok, order) ==
    AddEnsured(org_id, agent_id, request, replies, embed_ok, order,
               _resolve_overrides(org_id, agent_id),
               Ensured(_resolve_overrides(org_id, agent_id)))

\* the loop of search over the hits, then adjusted.sort(reverse=True):
\* Python's sort is stable, so equal scores keep the order they came in
RECURSIVE Adjusted(_, _)
Adjusted(hits, t) ==
    IF hits = <<>> THEN <<>>
    ELSE <<[Head(hits) EXCEPT
              !.score = apply_time_decay(Head(hits).score,
                                         Head(hits).payload.created_at, t)]>>
         \o Adjusted(Tail(hits), t)

\* h goes after every element whose score is at least its own
InsertDesc(sorted, h) ==
    LET n == Cardinality({i \in 1..Len(sorted) : sorted[i].score >= h.score}) IN
    SubSeq(sorted, 1, n) \o <<h>> \o SubSeq(sorted, n + 1, Len(sorted))

RECURSIVE SortDesc(_, _)
SortDesc(hits, sorted) ==
    IF hits = <<>> THEN sorted
    ELSE SortDesc(Tail(hits), InsertDesc(sorted, Head(hits)))

\* the decayed hits left in the order the repository returned them
Unsorted(hits, t) == Adjusted(hits, t)

Rerank(hits, t) == SortDesc(Adjusted(hits, t), <<>>)

\* repository.search: the points the filter admits, best raw score first, at
\* most `limit` of them; `ranked` is the store's ranking of all its points
search(points, ranked, sim, limit, org_id, agent_id, scope, tags) ==
    LET ids == SelectSeq(ranked,
                         LAMBDA i : _build_filter(points[i], org_id, agent_id,
                                                  scope, tags))
    IN [n \in 1..Min(limit, Len(ids)) |->
          MemoryHit(ids[n], sim[points[ids[n]].vector], points[ids[n]].payload.text,
                    points[ids[n]].payload)]

\* `top_k = request.k or self._resolve_top_k(overrides)`
SearchLimit(request, overrides) ==
    IF request.k # 0 THEN request.k ELSE _resolve_top_k(overrides)

Search(org_id, agent_id, request, embed_ok, sim, ranked) ==
    LET overrides == _resolve_overrides(org_id, agent_id)
        e == Ensured(overrides)
        top_k == SearchLimit(request, overrides)
        hits == search(store, ranked, sim, top_k, org_id, agent_id, request.scope,
                       request.tags)
    IN /\ \A i, j \in 1..Len(ranked) :
            i < j => sim[store[ranked[i]].vector] >= sim[store[ranked[j]].vector]
       /\ EnsureRepository(e)
       /\ UNCHANGED <<store, now>>
       /\ IF ~embed_ok
          THEN last' = Outcome("search", org_id, agent_id,
                               [request |-> request, hits |-> <<>>,
                                limit |-> top_k], <<>>,
                               e.calls \o <<"tei.embed">>, "RetryError")
          ELSE last' = Outcome("search", org_id, agent_id,
                               [request |-> request, hits |-> hits,
                                limit |-> top_k],
                               Rerank(hits, now),
                               e.calls \o <<"tei.embed", "qdrant.search">>, "")

\* the patch update applies to the record it fetched
Patched(record, request, t) ==
    LET text == IF request.text # <<>> THEN request.text ELSE record.text IN
    [record EXCEPT
        !.text = text,
        !.payload.tags = IF request.tags.some THEN request.tags.val ELSE @,
        !.payload.scope = IF request.scope.some THEN request.scope.val ELSE @,
        !.payload.ttl_days = IF request.ttl_days.some THEN request.ttl_days.val ELSE @,
        !.payload.deleted = IF request.deleted.some THEN request.deleted.val ELSE @,
        !.payload.updated_at = t,
        !.payload.text = text]

\* a tenancy check on the organisation alone
ForeignByOrg(record, org_id, agent_id) ==
    record.payload.org_id # org_id

\* the tenancy check of update and delete on the record they fetched
Foreign(record, org_id, agent_id) ==
    record.payload.org_id # org_id \/ record.payload.agent_id # agent_id

\* an update that writes the patched payload before it embeds the new text
UpdateWritesFirst(org_id, agent_id, memory_id, request, embed_ok) ==
    LET e == Ensured(_resolve_overrides(org_id, agent_id))
        record == get(store, memory_id)
        req == [id |-> memory_id, request |-> request]
        patched == Patched(record.val, request, now)
        embedded == [patched EXCEPT !.vector = Some(Embed(patched.text))]
    IN /\ EnsureRepository(e)
       /\ UNCHANGED now
       /\ IF ~record.some \/ Foreign(record.val, org_id, agent_id)
          THEN /\ store' = store
               /\ last' = Outcome("update", org_id, agent_id, req, <<>>,
                                  e.calls \o <<"qdrant.retrieve">>, "NotFoundError")
          ELSE IF request.text # <<>> /\ ~embed_ok
          THEN /\ store' = set_payload(store, patched)
               /\ last' = Outcome("update", org_id, agent_id, req, <<>>,
                                  e.calls \o <<"qdrant.retrieve", "qdrant.set_payload",
                                               "tei.embed">>, "RetryError")
          ELSE /\ store' = upsert(store, <<embedded>>)
               /\ last' = Outcome("update", org_id, agent_id, req, <<embedded>>,
                                  e.calls \o <<"qdrant.retrieve", "tei.embed",
                                               "qdrant.upsert">>, "")

Update(org_id, agent_id, memory_id, request, embed_ok) ==
    LET e == Ensured(_resolve_overrides(org_id, agent_id))
        record == get(store, memory_id)
        req == [id |-> memory_id, request |-> request]
        patched == Patched(record.val, request, now)
        embedded == [patched EXCEPT !.vector = Some(Embed(patched.text))]
    IN /\ EnsureRepository(e)
       /\ UNCHANGED now
       /\ IF ~record.some \/ Foreign(record.val, org_id, agent_id)
          THEN /\ store' = store
               /\ last' = Outcome("update", org_id, agent_id, req, <<>>,
                                  e.calls \o <<"qdrant.retrieve">>, "NotFoundError")
          ELSE IF request.text # <<>>
          THEN IF embed_ok
               THEN /\ store' = upsert(store, <<embedded>>)
                    /\ last' = Outcome("update", org_id, agent_id, req, <<embedded>>,
                                       e.calls \o <<"qdrant.retrieve", "tei.embed",
                                                    "qdrant.upsert">>, "")
               ELSE /\ store' = store
                    /\ last' = Outcome("update", org_id, agent_id, req, <<>>,
                                       e.calls \o <<"qdrant.retrieve", "tei.embed">>,
                                       "RetryError")
          ELSE /\ store' = set_payload(store, patched)
               /\ last' = Outcome("update", org_id, agent_id, req, <<patched>>,
                                  e.calls \o <<"qdrant.retrieve", "qdrant.set_payload">>,
                                  "")

Delete(org_id, agent_id, memory_id, hard) ==
    LET e == Ensured(_resolve_overrides(org_id, agent_id))
        record == get(store, memory_id)
        req == [id |-> memory_id, hard |-> hard, record |-> record]
    IN /\ EnsureRepository(e)
       /\ UNCHANGED now
       /\ IF ~record.some \/ Foreign(record.val, org_id, agent_id)
          THEN /\ store' = store
               /\ last' = Outcome("delete", org_id, agent_id, req, <<>>,
                                  e.calls \o <<"qdrant.retrieve">>, "NotFoundError")
          ELSE IF hard
          THEN /\ store' = delete_many(store, <<memory_id>>)
               /\ last' = Outcome("delete", org_id, agent_id, req, <<>>,
                                  e.calls \o <<"qdrant.retrieve", "qdrant.delete">>, "")
          ELSE /\ store' = soft_delete(store, memory_id, now)
               /\ last' = Outcome("delete", org_id, agent_id, req, <<>>,
                                  e.calls \o <<"qdrant.retrieve", "qdrant.retrieve",
                                               "qdrant.set_payload">>, "")

\* list_recent: the filter, newest updated_at first, at most `limit`; `order` is
\* the order the store yields them in, which the guard makes newest first
List(org_id, agent_id, limit, include_deleted, order) ==
    LET e == Ensured(_resolve_overrides(org_id, agent_id))
        ids == SelectSeq(order,
                         LAMBDA i : ListFilter(store[i], org_id, agent_id,
                                               include_deleted))
        req == [limit |-> limit, include_deleted |-> include_deleted]
    IN /\ \A i, j \in 1..Len(order) :
            i < j => store[order[i]].payload.updated_at
                        >= store[order[j]].payload.updated_at
       /\ EnsureRepository(e)
       /\ UNCHANGED <<store, now>>
       /\ last' = Outcome("list", org_id, agent_id, req,
                          [n \in 1..Min(limit, Len(ids)) |-> get(store, ids[n]).val],
                          e.calls \o <<"qdrant.scroll">>, "")

\* a filter that lets the records of every tenancy through
OwnedByAnyone(records, org_id, agent_id) == records

RECURSIVE OwnedBy(_, _, _)
OwnedBy(records, org_id, agent_id) ==
    IF records = <<>> THEN <<>>
    ELSE (IF Foreign(Head(records), org_id, agent_id) THEN <<>>
          ELSE <<Head(records)>>)
         \o OwnedBy(Tail(records), org_id, agent_id)

GetMany(org_id, agent_id, memory_ids) ==
    LET e == Ensured(_resolve_overrides(org_id, agent_id))
        records == get_many(store, memory_ids)
    IN /\ EnsureRepository(e)
       /\ UNCHANGED <<store, now>>
       /\ last' = Outcome("get_many", org_id, agent_id, [ids |-> memory_ids],
                          OwnedBy(records, org_id, agent_id),
                          e.calls \o (IF memory_ids = <<>> THEN <<>>
                                      ELSE <<"qdrant.retrieve">>), "")

\* the soft branch of delete_many: every fetched record of the tenant is marked
RECURSIVE MarkDeleted(_, _, _)
MarkDeleted(points, records, t) ==
    IF records = <<>> THEN points
    ELSE MarkDeleted(set_payload(points,
                        [Head(records) EXCEPT !.payload.deleted = TRUE,
                                              !.payload.updated_at = t]),
                     Tail(records), t)

\* what delete_many(hard=True) hands to the repository
HardDeleteIds(memory_ids, org_id, agent_id) == memory_ids

DeleteMany(org_id, agent_id, memory_ids, hard) ==
    LET e == Ensured(_resolve_overrides(org_id, agent_id))
        own == OwnedBy(get_many(store, memory_ids), org_id, agent_id)
        req == [ids |-> memory_ids, hard |-> hard]
    IN /\ UNCHANGED now
       /\ IF memory_ids = <<>>
          THEN /\ UNCHANGED <<store, repositories, collections, indexes>>
               /\ last' = Outcome("delete_many", org_id, agent_id, req, <<>>, <<>>, "")
          ELSE /\ EnsureRepository(e)
               /\ IF hard
                  THEN /\ store' = delete_many(store,
                                      HardDeleteIds(memory_ids, org_id, agent_id))
                       /\ last' = Outcome("delete_many", org_id, agent_id, req, <<>>,
                                          e.calls \o <<"qdrant.delete">>, "")
                  ELSE /\ store' = MarkDeleted(store, own, now)
                       /\ last' = Outcome("delete_many", org_id, agent_id, req, <<>>,
                                          e.calls \o <<"qdrant.retrieve">>
                                          \o Repeat("qdrant.set_payload", Len(own)), "")

SearchText(org_id, agent_id, query, limit, include_deleted, order) ==
    LET e == Ensured(_resolve_overrides(org_id, agent_id))
        found == search_text(store, order, org_id, agent_id, query, limit,
                             include_deleted)
        req == [query |-> query, limit |-> limit, include_deleted |-> include_deleted]
    IN /\ EnsureRepository(e)
       /\ UNCHANGED <<store, now>>
       /\ last' = Outcome("search_text", org_id, agent_id, req, found.records,
                          e.calls \o Repeat("qdrant.scroll", found.scrolls), "")

\* startup: the default collection is ensured
Startup ==
    LET e == Ensured(NoOverrides) IN
    /\ EnsureRepository(e)
    /\ UNCHANGED <<store, now, world, tasks, reranker_available, session,
                   jwks_cache, lock>>
    /\ last' = Outcome("startup", "", "", <<>>, <<>>, e.calls, "")

\* a day passes
Tick ==
    /\ now < MaxDays * TicksPerDay
    /\ now' = now + TicksPerDay
    /\ UNCHANGED <<store, repositories, collections, indexes, last, world, tasks,
                   reranker_available, session,
                   jwks_cache, lock>>

(***************************************************************************)
(* The service: a fresh core in front of a vector store that either has no *)
(* collection yet or has one whose org_id index is not tenant-aware.       *)
(***************************************************************************)
Idle == Outcome("init", "", "", <<>>, <<>>, <<>>, "")

Fresh ==
    /\ store = <<>>
    /\ now = 0
    /\ repositories = {}
    /\ \/ collections = {} /\ indexes = <<>>
       \/ collections = {DefaultCollection.name}
          /\ indexes = [f \in {"org_id"} |-> FALSE]
    /\ last = Idle
    /\ tasks = <<>>
    /\ reranker_available = None
    /\ session = <<>>
    /\ jwks_cache = None
    /\ lock = FALSE

Init == world \in Worlds /\ Fresh

InitTenants == world = WorldTenants /\ Fresh

InitUsers == world = WorldUsers /\ Fresh

InitPolicy == world = WorldPolicy /\ Fresh

InitLlm == world = WorldLlm /\ Fresh

InitBatch == world = WorldBatch /\ Fresh

Ids == DOMAIN store \cup {MissingId}

Vectors == {store[i].vector : i \in DOMAIN store}

Queries == {<<"t", "e", "a">>, <<"c", "A", "L", "L">>}

AddNext ==
    \E t \in world.tenants, u \in world.users, a \in world.adds, sc \in world.scopes,
       replies \in world.replies, embed_ok \in BOOLEAN, order \in Perms(DOMAIN store) :
        /\ Add(t[1], t[2], AddRequest(u, a.text, a.messages, sc), replies, embed_ok,
               order)
        /\ UNCHANGED <<world, tasks, reranker_available, session,
                       jwks_cache, lock>>

SearchNext ==
    \E t \in world.tenants, k \in {None} \cup {Some(n) : n \in 0..MaxLimit},
       sc \in world.scopes, embed_ok \in BOOLEAN :
     \E sim \in IF embed_ok THEN [Vectors -> RawScores] ELSE {<<>>},
        ranked \in IF embed_ok THEN Perms(DOMAIN store) ELSE {<<>>} :
        /\ Search(t[1], t[2],
                  SearchRequest(TextTea, k, sc, <<>>),
                  embed_ok, sim, ranked)
        /\ UNCHANGED <<world, tasks, reranker_available, session,
                       jwks_cache, lock>>

UpdateNext ==
    \E t \in world.tenants, i \in Ids, text \in world.edits, sc \in world.scopes,
       deleted \in {None, Some(TRUE), Some(FALSE)} :
     \E embed_ok \in IF text = <<>> THEN {TRUE} ELSE BOOLEAN :
        /\ Update(t[1], t[2], i, UpdateRequest(text, sc, deleted), embed_ok)
        /\ UNCHANGED <<world, tasks, reranker_available, session,
                       jwks_cache, lock>>

DeleteNext ==
    \E t \in world.tenants, i \in Ids, hard \in BOOLEAN :
        /\ Delete(t[1], t[2], i, hard)
        /\ UNCHANGED <<world, tasks, reranker_available, session,
                       jwks_cache, lock>>

ListNext ==
    \E t \in world.tenants, limit \in 1..MaxLimit, include_deleted \in BOOLEAN,
       order \in Perms(DOMAIN store) :
        /\ List(t[1], t[2], limit, include_deleted, order)
        /\ UNCHANGED <<world, tasks, reranker_available, session,
                       jwks_cache, lock>>

GetManyNext ==
    \E t \in world.tenants, ids \in IdLists(Ids) :
        /\ GetMany(t[1], t[2], ids)
        /\ UNCHANGED <<world, tasks, reranker_available, session,
                       jwks_cache, lock>>

DeleteManyNext ==
    \E t \in world.tenants, ids \in IdLists(Ids), hard \in BOOLEAN :
        /\ DeleteMany(t[1], t[2], ids, hard)
        /\ UNCHANGED <<world, tasks, reranker_available, session,
                       jwks_cache, lock>>

SearchTextNext ==
    \E t \in world.tenants, q \in Queries, limit \in 1..MaxLimit,
       include_deleted \in BOOLEAN, order \in Perms(DOMAIN store) :
        /\ SearchText(t[1], t[2], q, limit, include_deleted, order)
        /\ UNCHANGED <<world, tasks, reranker_available, session,
                       jwks_cache, lock>>

Next ==
    \/ Startup
    \/ Tick
    \/ AddNext
    \/ SearchNext
    \/ UpdateNext
    \/ DeleteNext
    \/ ListNext
    \/ GetManyNext
    \/ DeleteManyNext
    \/ SearchTextNext

Spec == Init /\ [][Next]_vars

SpecTenants == InitTenants /\ [][Next]_vars

SpecUsers == InitUsers /\ [][Next]_vars

SpecPolicy == InitPolicy /\ [][Next]_vars

SpecLlm == InitLlm /\ [][Next]_vars

SpecBatch == InitBatch /\ [][Next]_vars

(***************************************************************************)
(* apply_time_decay on its own: two hits of one raw score, created at two  *)
(* instants, decayed at the same `now`.                                    *)
(***************************************************************************)
DecayScores == {-500, 0, 900}

DecayNow == 181 * TicksPerDay

\* ages in ticks: today, within the day, one day, one half-life, a tick more,
\* two half-lives; and a created_at one tick in the future
DecayAges ==
    {-1, 0, 1, TicksPerDay, HALF_LIFE_DAYS * TicksPerDay,
     HALF_LIFE_DAYS * TicksPerDay + 1, 2 * HALF_LIFE_DAYS * TicksPerDay}

StoreIdle ==
    /\ store = <<>>
    /\ repositories = {}
    /\ collections = {}
    /\ indexes = <<>>
    /\ world = WorldUsers
    /\ tasks = <<>>
    /\ reranker_available = None
    /\ session = <<>>
    /\ jwks_cache = None
    /\ lock = FALSE

InitDecay ==
    /\ StoreIdle
    /\ now = DecayNow
    /\ \E score \in DecayScores, a1 \in DecayAges, a2 \in DecayAges :
        last = Outcome("hits", "", "",
                       [score |-> score, created_at |-> <<now - a1, now - a2>>],
                       <<>>, <<>>, "")

Decay ==
    /\ last.op = "hits"
    /\ last' = Outcome("apply_time_decay", "", "", last.req,
                       [n \in 1..2 |->
                          apply_time_decay(last.req.score, last.req.created_at[n],
                                           now)],
                       <<>>, "")
    /\ UNCHANGED <<store, now, repositories, collections, indexes, world, tasks,
                   reranker_available, session,
                   jwks_cache, lock>>

SpecDecay == InitDecay /\ [][Decay]_vars

(***************************************************************************)
(* normalize_memories on its own: a payload and what the chat endpoint     *)
(* does on each of the attempts.                                           *)
(***************************************************************************)
NormPayloads == {<<TextCall>>, <<TextHi, TextTea>>}

NormReplies ==
    {ReplyError, ReplyOk(ContentJsonTea), ReplyOk(ContentJsonSkipped),
     ReplyOk(ContentLines), ReplyOk(ContentEmptyArray), ReplyOk(ContentBlank)}

InitNorm ==
    /\ StoreIdle
    /\ now = 0
    /\ \E payload \in NormPayloads, replies \in [1..ATTEMPTS -> NormReplies] :
        last = Outcome("payload", "", "", [payload |-> payload, replies |-> replies],
                       <<>>, <<>>, "")

NormalizeWith(norm) ==
    /\ last' = Outcome("normalize_memories", "", "", last.req, norm.result,
                       Repeat("openrouter.post", norm.attempts),
                       IF norm.raised THEN "RetryError" ELSE "")
    /\ UNCHANGED <<store, now, repositories, collections, indexes, world, tasks,
                   reranker_available, session,
                   jwks_cache, lock>>

Normalize ==
    /\ last.op = "payload"
    /\ NormalizeWith(normalize_memories(last.req.payload, last.req.replies))

SpecNorm == InitNorm /\ [][Normalize]_vars

(***************************************************************************)
(* Concurrent add calls.  add is a coroutine: it can be suspended at each  *)
(* await, and the event loop then runs another request.  The awaits that   *)
(* matter are the find_by_hash of each loop iteration and the final        *)
(* upsert: a task is suspended after the embedding (AddCall), runs one     *)
(* iteration of the loop per step (AddFind), and upserts and returns       *)
(* (AddReturn).  The embedding is taken to succeed.                        *)
(***************************************************************************)
NoTask == [pc |-> "idle"]

InitRace ==
    /\ world = WorldRace
    /\ store = <<>>
    /\ now = 0
    /\ repositories = {}
    /\ collections = {}
    /\ indexes = <<>>
    /\ last = Idle
    /\ tasks = [c \in 1..MaxTasks |-> NoTask]
    /\ reranker_available = None
    /\ session = <<>>
    /\ jwks_cache = None
    /\ lock = FALSE

\* lines 122-142: up to and including `await self._tei.embed(texts)`
AddCall(c, org_id, agent_id, request, replies) ==
    LET overrides == _resolve_overrides(org_id, agent_id)
        e == Ensured(overrides)
        policy == _build_policy_engine(overrides)
        candidate_texts == StripAll(iter_texts(request))
        norm == IF candidate_texts # <<>> /\ policy.normalize_with_llm
                THEN normalize_memories(candidate_texts, replies).result
                ELSE candidate_texts
        texts == Persistable(policy, norm, RequestScope(request))
    IN /\ tasks[c].pc = "idle"
       /\ EnsureRepository(e)
       /\ tasks' = [tasks EXCEPT ![c] =
                      [pc |-> "loop", org |-> org_id, agent |-> agent_id,
                       request |-> request, policy |-> policy, texts |-> texts,
                       acc |-> [all |-> <<>>, new |-> <<>>, calls |-> <<>>]]]
       /\ UNCHANGED <<store, now, last, world, reranker_available, session,
                      jwks_cache, lock>>

\* lines 144-167: one iteration of the loop, with its find_by_hash
AddFind(c, order) ==
    LET t == tasks[c] IN
    /\ t.pc = "loop"
    /\ t.texts # <<>>
    /\ tasks' = [tasks EXCEPT ![c].texts = Tail(t.texts),
                              ![c].acc = AddLoop(store, order, t.org, t.agent,
                                                 t.request, t.policy,
                                                 <<Head(t.texts)>>, t.acc)]
    /\ UNCHANGED <<store, now, repositories, collections, indexes, last, world,
                   reranker_available, session,
                   jwks_cache, lock>>

\* lines 169-171: the upsert of the new records and the return
AddReturn(c) ==
    LET t == tasks[c] IN
    /\ t.pc = "loop"
    /\ t.texts = <<>>
    /\ store' = upsert(store, t.acc.new)
    /\ tasks' = [tasks EXCEPT ![c] = [pc |-> "returned", org |-> t.org,
                                      agent |-> t.agent, request |-> t.request,
                                      result |-> t.acc.all, new |-> t.acc.new]]
    /\ last' = Outcome("add", t.org, t.agent, [request |-> t.request], t.acc.all,
                       t.acc.calls \o (IF t.acc.new # <<>> THEN <<"qdrant.upsert">>
                                       ELSE <<>>), "")
    /\ UNCHANGED <<now, repositories, collections, indexes, world, reranker_available, session,
                   jwks_cache, lock>>

AddCallNext ==
    \E c \in 1..MaxTasks, t \in world.tenants, u \in world.users, a \in world.adds,
       sc \in world.scopes, replies \in world.replies :
        AddCall(c, t[1], t[2], AddRequest(u, a.text, a.messages, sc), replies)

AddFindNext == \E c \in 1..MaxTasks, order \in Perms(DOMAIN store) : AddFind(c, order)

AddReturnNext == \E c \in 1..MaxTasks : AddReturn(c)

NextRace ==
    \/ AddCallNext
    \/ AddFindNext
    \/ AddReturnNext
    \/ Tick

SpecRace == InitRace /\ [][NextRace]_vars

(***************************************************************************)
(* search_text on its own, over collections of more than one page.  A      *)
(* point is named by its rank in the order the scroll yields the points;   *)
(* the points at the ranks `hits` contain the query, the one at `gone` is  *)
(* soft-deleted and the one at `alien` belongs to another agent.           *)
(***************************************************************************)
ScanPoints(req) ==
    [i \in 1..req.size |->
        LET d == <<"0", "1", "2", "3", "4", "5", "6", "7", "8", "9">>
            text == (IF i \in req.hits THEN <<"C", "a", "l", "l", " ">>
                     ELSE <<"T", "e", "a", " ">>)
                    \o <<d[(i \div 100) + 1], d[((i \div 10) % 10) + 1], d[(i % 10) + 1]>>
            agent_id == IF i = req.alien THEN TenantB[2] ELSE TenantA[2]
        IN [vector |-> Some(Embed(text)),
            payload |-> MemoryPayload(TenantA[1], agent_id, "u1", "facts", <<>>, None,
                                      DEFAULT_TTL_DAYS, 0, 0, i = req.gone, text,
                                      compute_hash(TenantA[1], agent_id, "u1", text))]]

InitScan ==
    /\ StoreIdle
    /\ now = 0
    /\ \E size \in {2, PAGE_SIZE, 2 * PAGE_SIZE + 3},
          hits \in SUBSET {1, 2, PAGE_SIZE, PAGE_SIZE + 1, 2 * PAGE_SIZE + 3},
          gone \in {0, 1, PAGE_SIZE + 1}, alien \in {0, 2, PAGE_SIZE}, limit \in 1..3 :
        last = Outcome("points", TenantA[1], TenantA[2],
                       [size |-> size, hits |-> hits, gone |-> gone, alien |-> alien,
                        query |-> <<"c", "A", "L", "L">>, limit |-> limit,
                        include_deleted |-> FALSE],
                       <<>>, <<>>, "")

Scan ==
    /\ last.op = "points"
    /\ LET found == search_text(ScanPoints(last.req), [i \in 1..last.req.size |-> i],
                                last.org, last.agent, last.req.query, last.req.limit,
                                last.req.include_deleted)
       IN last' = Outcome("search_text", last.org, last.agent, last.req, found.records,
                          Repeat("qdrant.scroll", found.scrolls), "")
    /\ UNCHANGED <<store, now, repositories, collections, indexes, world, tasks,
                   reranker_available, session,
                   jwks_cache, lock>>

SpecScan == InitScan /\ [][Scan]_vars

(***************************************************************************)
(* TEIClient.embed on its own: the input texts and what the embeddings     *)
(* endpoint does on each of the attempts.                                  *)
(***************************************************************************)
InitTei ==
    /\ StoreIdle
    /\ now = 0
    /\ \E payload \in {<<>>, <<TextCall>>, <<TextHi, TextTea>>} :
         \E replies \in [1..TEI_ATTEMPTS ->
                            {[kind |-> "post_error"], [kind |-> "status_error"],
                             [kind |-> "key_error"], TeiOk(payload, "vec"),
                             TeiOk(payload, "vec2")}] :
            last = Outcome("texts", "", "", [payload |-> payload, replies |-> replies],
                           <<>>, <<>>, "")

EmbedTexts ==
    /\ last.op = "texts"
    /\ LET got == embed(last.req.payload, last.req.replies) IN
         last' = Outcome("embed", "", "", last.req, got.result,
                         Repeat("tei.post", got.attempts),
                         IF got.raised THEN "RetryError" ELSE "")
    /\ UNCHANGED <<store, now, repositories, collections, indexes, world, tasks,
                   reranker_available, session,
                   jwks_cache, lock>>

SpecTei == InitTei /\ [][EmbedTexts]_vars

(***************************************************************************)
(* Properties.  `last` is the outcome of the latest operation; a step that *)
(* leaves the clock alone and ends with last.op = "add" is a step of add,  *)
(* and likewise for the other operations.                                  *)
(***************************************************************************)
\* C1: with deduplication on, an add of a text whose record by the same
\* (org, agent, user) is in the store answers with that record's id, the id
\* make_id derives from (org, agent, text), one element per text, leaves the
\* record as it is, and when every text of the request is such a text no
\* upsert is issued and the store does not change.
C1_ReAddIsDeduplicated ==
    [][(/\ last'.op = "add"
        /\ now' = now
        /\ last'.error = ""
        /\ _build_policy_engine(_resolve_overrides(last'.org, last'.agent))
               .deduplicate)
       => LET texts == last'.req.texts
              \* the store holds the record this user's add of t wrote
              Known(t) ==
                  LET id == make_id(last'.org, last'.agent, t) IN
                  /\ id \in DOMAIN store
                  /\ Matches(store[id], last'.org, last'.agent)
                  /\ store[id].payload.user_id = last'.req.request.user_id
          IN /\ Len(last'.result) = Len(texts)
             /\ \A n \in 1..Len(texts) :
                  Known(texts[n]) =>
                    /\ last'.result[n].id = make_id(last'.org, last'.agent, texts[n])
                    /\ store'[last'.result[n].id] = store[last'.result[n].id]
             /\ (\A n \in 1..Len(texts) : Known(texts[n])) =>
                    /\ "qdrant.upsert" \notin Range(last'.calls)
                    /\ store' = store]_vars

\* an add of one text that found its record: a lookup, no upsert, one element
C1_Witness ==
    /\ last.op = "add"
    /\ last.error = ""
    /\ _build_policy_engine(_resolve_overrides(last.org, last.agent)).deduplicate
    /\ Len(last.req.texts) = 1
    /\ Len(last.result) = 1
    /\ "qdrant.scroll" \in Range(last.calls)
    /\ "qdrant.upsert" \notin Range(last.calls)

\* C2: no hit that search returns is a soft-deleted record.
C2_SearchSkipsDeleted ==
    last.op = "search" =>
        \A n \in 1..Len(last.result) :
            /\ ~last.result[n].payload.deleted
            /\ ~store[last.result[n].id].payload.deleted

\* C3: list and search_text without include_deleted return no soft-deleted
\* record; with include_deleted the records of the tenant, deleted or not
\* (those whose text contains the query, for search_text), are all returned
\* when there are no more of them than the limit.
C3_DeletedOnlyOnRequest ==
    last.op \in {"list", "search_text"} =>
        LET eligible ==
                {i \in DOMAIN store :
                    /\ Matches(store[i], last.org, last.agent)
                    /\ last.op = "search_text" =>
                          Contains(Lower(store[i].payload.text),
                                   Lower(last.req.query))}
            returned == {last.result[n].id : n \in 1..Len(last.result)}
        IN IF last.req.include_deleted
           THEN Cardinality(eligible) <= last.req.limit => eligible \subseteq returned
           ELSE \A n \in 1..Len(last.result) :
                    /\ ~last.result[n].payload.deleted
                    /\ ~store[last.result[n].id].payload.deleted

\* a list with include_deleted that returned a soft-deleted record
C3_Witness ==
    /\ last.op = "list"
    /\ last.req.include_deleted
    /\ \E n \in 1..Len(last.result) : last.result[n].payload.deleted

\* C4: get_many, list, search and search_text under (O, A) return only
\* records stored under (O, A); update and delete under (O, A) of the id of
\* a record stored under another pair fail with NotFoundError and leave the
\* store as it was.
C4_TenantIsolation ==
    [][/\ last'.op \in {"get_many", "list", "search", "search_text"} =>
            \A n \in 1..Len(last'.result) :
                /\ last'.result[n].payload.org_id = last'.org
                /\ last'.result[n].payload.agent_id = last'.agent
                /\ Matches(store'[last'.result[n].id], last'.org, last'.agent)
       /\ (/\ last'.op \in {"update", "delete"}
           /\ now' = now
           /\ last'.req.id \in DOMAIN store
           /\ ~Matches(store[last'.req.id], last'.org, last'.agent))
          => /\ last'.error = "NotFoundError"
             /\ store' = store]_vars

\* an update under one agent of a record another agent of the organisation
\* stored was refused
C4_Witness ==
    /\ last.op = "update"
    /\ last.error = "NotFoundError"
    /\ last.req.id \in DOMAIN store
    /\ ~Matches(store[last.req.id], last.org, last.agent)
    /\ store[last.req.id].payload.org_id = last.org

\* C5: a delete_many under (O, A) leaves every record stored under another
\* pair in the store and unchanged.
C5_DeleteManyKeepsForeign ==
    [][(last'.op = "delete_many" /\ now' = now) =>
          \A i \in DOMAIN store :
              ~Matches(store[i], last'.org, last'.agent) =>
                  i \in DOMAIN store' /\ store'[i] = store[i]]_vars

\* C6: what search returns is the hits of the repository, each once, with its
\* score replaced by its decayed score, in non-increasing order of that score.
C6_SearchReranksRepositoryHits ==
    [][(last'.op = "search" /\ now' = now /\ last'.error = "") =>
          LET hits == last'.req.hits
              result == last'.result
              n == Len(hits)
          IN /\ Len(result) = n
             /\ \E f \in [1..n -> 1..n] :
                  /\ \A i, j \in 1..n : i # j => f[i] # f[j]
                  /\ \A i \in 1..n :
                        result[i] =
                            [hits[f[i]] EXCEPT
                                !.score = apply_time_decay(
                                              hits[f[i]].score,
                                              hits[f[i]].payload.created_at, now)]
             /\ \A i \in 1..(n - 1) : result[i].score >= result[i + 1].score]_vars

\* a search whose first hit is more recent than its second and had the lower
\* raw score
C6_Witness ==
    /\ last.op = "search"
    /\ Len(last.result) = 2
    /\ last.result[1].payload.created_at > last.result[2].payload.created_at
    /\ \E i, j \in 1..Len(last.req.hits) :
        /\ last.req.hits[i].id = last.result[1].id
        /\ last.req.hits[j].id = last.result[2].id
        /\ last.req.hits[i].score < last.req.hits[j].score

\* C7: of two hits of one raw score in distinct whole-day age buckets, the
\* more recent one gets the strictly greater decayed score.
C7_RecentDecaysLess ==
    last.op = "apply_time_decay" =>
        \A i, j \in 1..2 :
            (/\ last.req.created_at[i] > last.req.created_at[j]
             /\ Max(WholeDays(last.req.created_at[i], now), 0)
                    # Max(WholeDays(last.req.created_at[j], now), 0))
            => last.result[i] > last.result[j]

\* C8: an add whose candidate texts are all rejected by the write policy
\* returns nothing and calls nothing but the chat endpoint.
C8_AllRejectedCallsNothingElse ==
    (/\ last.op = "add"
     /\ last.error = ""
     /\ StripAll(iter_texts(last.req.request)) # <<>>
     /\ last.req.texts = <<>>)
    => /\ last.result = <<>>
       /\ \A n \in DOMAIN last.calls : last.calls[n] = "openrouter.post"

\* C9: an add that normalizes posts to the chat endpoint at most ATTEMPTS
\* times; when every attempt fails it has posted ATTEMPTS times, does not
\* fail for it, goes on with the stripped texts of the request that pass the
\* write policy, embeds them, and each of them is in the store under its id.
C9_NormalizeFailureFallsBack ==
    (/\ last.op = "add"
     /\ _build_policy_engine(_resolve_overrides(last.org, last.agent))
            .normalize_with_llm)
    => LET raw == StripAll(iter_texts(last.req.request))
           policy == _build_policy_engine(_resolve_overrides(last.org, last.agent))
           posts == Cardinality({n \in DOMAIN last.calls :
                                    last.calls[n] = "openrouter.post"})
       IN /\ posts <= ATTEMPTS
          /\ (/\ raw # <<>>
              /\ \A n \in 1..ATTEMPTS : last.req.replies[n].kind = "error")
             => /\ posts = ATTEMPTS
                /\ last.req.texts =
                        Persistable(policy, raw, RequestScope(last.req.request))
                /\ last.req.texts # <<>> => "tei.embed" \in Range(last.calls)
                /\ last.error = "" =>
                      /\ Len(last.result) = Len(last.req.texts)
                      /\ \A n \in 1..Len(last.result) :
                            /\ last.result[n].id =
                                   make_id(last.org, last.agent, last.req.texts[n])
                            /\ last.result[n].id \in DOMAIN store

\* an add whose three posts all failed and that stored the text as it came
C9_Witness ==
    /\ last.op = "add"
    /\ \A n \in 1..ATTEMPTS : last.req.replies[n].kind = "error"
    /\ last.calls # <<>>
    /\ Cardinality({n \in DOMAIN last.calls : last.calls[n] = "openrouter.post"})
           = ATTEMPTS
    /\ last.error = ""
    /\ Len(last.result) = 1
    /\ last.result[1].text = StripAll(iter_texts(last.req.request))[1]
    /\ "qdrant.upsert" \in Range(last.calls)

\* C10: when the content of the answer is a JSON array, the result is the
\* memories of its items that are not skipped, or the input when there are
\* none: the lines of the content are not used.
C10_JsonArrayIsNotReadAsLines ==
    last.op = "normalize_memories" =>
        \A n \in 1..ATTEMPTS :
            (/\ last.req.replies[n].kind = "ok"
             /\ \A m \in 1..(n - 1) : last.req.replies[m].kind = "error")
            => LET parsed == JsonLoads(Strip(last.req.replies[n].content)) IN
               (parsed.some /\ parsed.val.t = "list") =>
                   last.result = IF NormalizedItems(parsed.val.items) # <<>>
                                 THEN NormalizedItems(parsed.val.items)
                                 ELSE last.req.payload
\* C11: embed of a non-empty input posts at most three requests, returns the
\* embeddings of the first attempt that succeeds after exactly that many
\* requests, and raises exactly when all three attempts fail; embed of an empty
\* input returns the empty list without any request.
C11_EmbedRetriesThreeTimes ==
    last.op = "embed" =>
        LET payload == last.req.payload
            replies == last.req.replies
            good == {n \in 1..TEI_ATTEMPTS : replies[n].kind = "ok"}
        IN  IF payload = <<>>
            THEN last.result = <<>> /\ last.calls = <<>> /\ last.error = ""
            ELSE /\ Len(last.calls) <= 3
                 /\ (last.error # "") <=> (good = {})
                 /\ good # {} =>
                      LET first == CHOOSE n \in good : \A m \in good : n <= m IN
                      /\ Len(last.calls) = first
                      /\ last.result =
                            [i \in 1..Len(payload) |-> replies[first].data[i].embedding]
                 /\ good = {} => Len(last.calls) = 3

\* two failed attempts, then a success whose embeddings are returned
C11_Witness ==
    /\ last.op = "embed"
    /\ last.req.payload = <<TextHi, TextTea>>
    /\ last.req.replies[1].kind # "ok"
    /\ last.req.replies[2].kind # "ok"
    /\ last.req.replies[3] = TeiOk(last.req.payload, "vec2")
    /\ last.error = ""
    /\ Len(last.calls) = 3
    /\ last.result = <<<<"vec2", Str(TextHi)>>, <<"vec2", Str(TextTea)>>>>

\* C12: every stored record's id (the key of its point) is make_id of its
\* payload's org_id, agent_id and text.
C12_IdIsMakeIdOfTriple ==
    \A i \in DOMAIN store :
        i = make_id(store[i].payload.org_id, store[i].payload.agent_id,
                     store[i].payload.text)

\* C13: in a tenancy whose write policy deduplicates, no two stored records of
\* the tenancy carry the same dedupe_hash.
C13_OneRecordPerHash ==
    \A i, j \in DOMAIN store :
        /\ store[i].payload.org_id = store[j].payload.org_id
        /\ store[i].payload.agent_id = store[j].payload.agent_id
        /\ _build_policy_engine(_resolve_overrides(store[i].payload.org_id,
                                                   store[i].payload.agent_id)).deduplicate
        /\ store[i].payload.dedupe_hash = store[j].payload.dedupe_hash
        => i = j

\* C14: every stored record has updated_at >= created_at.
C14_UpdatedNotBeforeCreated ==
    \A i \in DOMAIN store :
        store[i].payload.updated_at >= store[i].payload.created_at

\* a record created on the first day that a soft delete stamped on the second
C14_Witness ==
    /\ last.op \in {"delete", "delete_many"}
    /\ last.error = ""
    /\ \E i \in DOMAIN store :
        /\ store[i].payload.deleted
        /\ store[i].payload.updated_at = now
        /\ store[i].payload.updated_at > store[i].payload.created_at

\* C15: a successful add answers with one record per text that passed the
\* write policy, in the order of those texts: at each position the record that
\* find_by_hash found for the text when the tenant deduplicates and there was
\* one, and otherwise the record just created from the text.
C15_AddAnswersInInputOrder ==
    [][(last'.op = "add" /\ now' = now /\ last'.error = "") =>
          LET org == last'.org
              agent == last'.agent
              request == last'.req.request
              policy == _build_policy_engine(_resolve_overrides(org, agent))
              texts == SelectSeq(StripAll(iter_texts(request)),
                                 LAMBDA t : should_persist(policy, t,
                                                           RequestScope(request)))
              res == last'.result
          IN  /\ ~policy.normalize_with_llm
              /\ Len(res) = Len(texts)
              /\ \A n \in 1..Len(texts) :
                   LET found == {i \in DOMAIN store :
                                   /\ Matches(store[i], org, agent)
                                   /\ store[i].payload.dedupe_hash =
                                        compute_hash(org, agent, request.user_id,
                                                     texts[n])}
                   IN IF policy.deduplicate /\ found # {}
                      THEN /\ res[n].id \in found
                           /\ res[n].payload = store[res[n].id].payload
                      ELSE /\ res[n].id = make_id(org, agent, texts[n])
                           /\ res[n].text = texts[n]
                           /\ res[n].payload.created_at = now
                           /\ res[n].id \in DOMAIN store'
                           /\ store'[res[n].id].payload = res[n].payload]_vars

\* four texts of which two pass the policy: the first is created, the second
\* was stored before and is answered from the store
C15_Witness ==
    /\ last.op = "add"
    /\ last.error = ""
    /\ Len(iter_texts(last.req.request)) = 4
    /\ Len(last.result) = 2
    /\ last.result[1].text = TextCall
    /\ last.result[1].payload.created_at = now
    /\ last.result[2].text = TextTea
    /\ last.result[2].payload.created_at < now
    /\ "qdrant.upsert" \in Range(last.calls)

\* C16: when two add calls for the same (org, agent, user, text) have run
\* concurrently, in whatever interleaving of their find_by_hash and upsert
\* steps, and both have returned, they returned the same id and the store holds
\* one record of the tenancy with that text, at that id.
C16_ConcurrentAddsShareOneSlot ==
    \A c, d \in DOMAIN tasks :
        (/\ c # d
         /\ tasks[c].pc = "returned"
         /\ tasks[d].pc = "returned"
         /\ tasks[c].org = tasks[d].org
         /\ tasks[c].agent = tasks[d].agent
         /\ tasks[c].request = tasks[d].request
         /\ \A o \in DOMAIN tasks \ {c, d} : tasks[o].pc = "idle")
        => /\ Len(tasks[c].result) = 1
           /\ Len(tasks[d].result) = 1
           /\ tasks[c].result[1].id = tasks[d].result[1].id
           /\ {i \in DOMAIN store :
                 /\ Matches(store[i], tasks[c].org, tasks[c].agent)
                 /\ store[i].payload.text = tasks[c].request.text}
              = {tasks[c].result[1].id}

\* both calls missed in find_by_hash and both upserted
C16_Witness ==
    /\ DOMAIN tasks = 1..MaxTasks
    /\ tasks[1].pc = "returned"
    /\ tasks[2].pc = "returned"
    /\ tasks[1].request = tasks[2].request
    /\ tasks[1].new # <<>>
    /\ tasks[2].new # <<>>
    /\ tasks[1].result[1].id = tasks[2].result[1].id
    /\ tasks[1].result[1].payload.created_at # tasks[2].result[1].payload.created_at
    /\ Cardinality(DOMAIN store) = 1

\* C17: a successful update stamps updated_at with the time of the call and
\* keeps payload.text equal to the record text; when the request changes the
\* text it re-embeds and upserts; when it does not (no text, or the text the
\* record already has) the stored text stays, the payload alone is patched
\* with set_payload and the vector is left as it was.
C17_UpdateReembedsOnlyOnChange ==
    [][(last'.op = "update" /\ now' = now /\ last'.error = "") =>
          LET id == last'.req.id
              request == last'.req.request
              changes == request.text # <<>> /\ request.text # store[id].payload.text
          IN  /\ store'[id].payload.updated_at = now
              /\ last'.result[1].text = store'[id].payload.text
              /\ IF changes
                 THEN /\ store'[id].payload.text = request.text
                      /\ store'[id].vector = Some(Embed(request.text))
                      /\ "tei.embed" \in Range(last'.calls)
                      /\ "qdrant.upsert" \in Range(last'.calls)
                 ELSE /\ store'[id].payload.text = store[id].payload.text
                      /\ store'[id].vector = store[id].vector
                      /\ "qdrant.set_payload" \in Range(last'.calls)
                      /\ "tei.embed" \notin Range(last'.calls)
                      /\ "qdrant.upsert" \notin Range(last'.calls)]_vars

\* C18: a soft delete by the owning tenancy succeeds whether or not the record
\* is already soft-deleted; afterwards the record is still stored with deleted
\* = true and updated_at = the time of the call (never earlier than before),
\* and its vector and every other payload field are as they were.
C18_SoftDeleteTwice ==
    [][(/\ last'.op = "delete"
        /\ now' = now
        /\ ~last'.req.hard
        /\ last'.req.id \in DOMAIN store
        /\ Matches(store[last'.req.id], last'.org, last'.agent))
       => LET id == last'.req.id IN
          /\ last'.error = ""
          /\ DOMAIN store' = DOMAIN store
          /\ store'[id].payload.deleted
          /\ store'[id].payload.updated_at = now
          /\ store'[id].payload.updated_at >= store[id].payload.updated_at
          /\ store'[id] = [store[id] EXCEPT !.payload.deleted = TRUE,
                                            !.payload.updated_at = now]
          /\ \A i \in DOMAIN store \ {id} : store'[i] = store[i]]_vars

\* the second soft delete, a day after the first: the record it fetched was
\* already deleted, and updated_at has advanced
C18_Witness ==
    /\ last.op = "delete"
    /\ last.error = ""
    /\ ~last.req.hard
    /\ last.req.record.some
    /\ last.req.record.val.payload.deleted
    /\ last.req.record.val.payload.updated_at < now
    /\ store[last.req.id].payload.deleted
    /\ store[last.req.id].payload.updated_at = now

\* C19: delete_many with hard = false marks every listed record that exists
\* and belongs to the caller's (org, agent) as deleted with updated_at = now,
\* removes nothing, and leaves every other record (listed ids of another
\* tenancy included) as it was; listed ids that are missing change nothing;
\* with an empty list it makes no call to the store at all.
C19_SoftDeleteManyMarksOwn ==
    [][(last'.op = "delete_many" /\ now' = now /\ ~last'.req.hard) =>
          LET ids == Range(last'.req.ids)
              own == {i \in ids \cap DOMAIN store :
                        Matches(store[i], last'.org, last'.agent)}
          IN  /\ last'.error = ""
              /\ DOMAIN store' = DOMAIN store
              /\ \A i \in DOMAIN store :
                   store'[i] = IF i \in own
                               THEN [store[i] EXCEPT !.payload.deleted = TRUE,
                                                     !.payload.updated_at = now]
                               ELSE store[i]
              /\ last'.req.ids = <<>> =>
                   /\ last'.calls = <<>>
                   /\ UNCHANGED <<repositories, collections, indexes>>]_vars

\* a list naming a record of the caller and one of another tenancy, a day
\* after both were written: the first is marked, the second is not
C19_Witness ==
    /\ last.op = "delete_many"
    /\ ~last.req.hard
    /\ Len(last.req.ids) = 2
    /\ \E i, j \in Range(last.req.ids) \cap DOMAIN store :
        /\ Matches(store[i], last.org, last.agent)
        /\ store[i].payload.deleted
        /\ store[i].payload.updated_at = now
        /\ store[i].payload.created_at < now
        /\ ~Matches(store[j], last.org, last.agent)
        /\ ~store[j].payload.deleted
        /\ store[j].payload.updated_at < now

\* C20: search_text with include_deleted = false returns the first
\* min(limit, number of matches) records, in scroll order, of the tenant's
\* records that are not deleted and whose text contains the query whatever the
\* case of its letters, however many pages the scroll takes.
C20_SearchTextFirstMatches ==
    (last.op = "search_text" /\ "size" \in DOMAIN last.req) =>
        LET points == ScanPoints(last.req)
            matches == SelectSeq([i \in 1..last.req.size |-> i],
                                 LAMBDA i :
                                    /\ points[i].payload.org_id = last.org
                                    /\ points[i].payload.agent_id = last.agent
                                    /\ ~points[i].payload.deleted
                                    /\ Contains(Lower(points[i].payload.text),
                                                Lower(last.req.query)))
            n == IF last.req.limit <= Len(matches) THEN last.req.limit
                 ELSE Len(matches)
        IN  /\ Len(last.result) = n
            /\ \A k \in 1..n :
                 /\ last.result[k].id = matches[k]
                 /\ last.result[k].payload = points[matches[k]].payload
                 /\ last.result[k].text = points[matches[k]].payload.text

\* three pages are scrolled and the matches come from the first, the second
\* and the third
C20_Witness ==
    /\ last.op = "search_text"
    /\ "size" \in DOMAIN last.req
    /\ Len(last.calls) = 3
    /\ last.req.limit = 3
    /\ last.req.gone = 1
    /\ last.req.alien = PAGE_SIZE
    /\ last.req.hits = {1, 2, PAGE_SIZE, PAGE_SIZE + 1, 2 * PAGE_SIZE + 3}
    /\ [k \in 1..3 |-> last.result[k].id] = <<2, PAGE_SIZE + 1, 2 * PAGE_SIZE + 3>>

(***************************************************************************)
(* _resolve_overrides on its own: a configuration with one organisation    *)
(* "o1" and one agent "a1" of it, each entry setting any of its fields,    *)
(* asked about a known or unknown organisation and agent.                  *)
(***************************************************************************)
\* the entries of an organisation (set == TRUE) or of an agent
OverrideEntries(of_org) ==
    {TenantOverrides(write, retrieval, collection, model, embedding_dims) :
        write \in {None, Some(WritePolicy(of_org, FALSE))},
        retrieval \in {None, Some([RetrievalPolicy EXCEPT
                                      !.top_k = IF of_org THEN 3 ELSE 4])},
        collection \in {None, Some([CollectionPolicy EXCEPT
                                      !.name = IF of_org THEN "mem_org"
                                               ELSE "mem_agent"])},
        model \in {None, Some(""), Some(IF of_org THEN "m-org" ELSE "m-agent")},
        embedding_dims \in {None, Some(IF of_org THEN 512 ELSE 256)}}

InitOverrides ==
    /\ StoreIdle
    /\ now = 0
    /\ \E base \in OverrideEntries(TRUE), agent \in OverrideEntries(FALSE),
          org_id \in {"o1", "o2"}, agent_id \in {"a1", "a2"} :
         last = Outcome("tenant", org_id, agent_id,
                        [o \in {"o1"} |->
                            [base |-> base, agents |-> [a \in {"a1"} |-> agent]]],
                        <<>>, <<>>, "")

ResolveOverrides ==
    /\ last.op = "tenant"
    /\ last' = Outcome("_resolve_overrides", last.org, last.agent, last.req,
                       resolve_overrides(last.req, last.org, last.agent),
                       <<>>, "")
    /\ UNCHANGED <<store, now, repositories, collections, indexes, world, tasks,
                   reranker_available, session,
                   jwks_cache, lock>>

SpecOverrides == InitOverrides /\ [][ResolveOverrides]_vars

\* what _build_policy_engine, _resolve_top_k, _get_repository and add make of
\* the resolved overrides; nothing in the core reads embedding_dims
Effective(overrides) ==
    [write |-> _build_policy_engine(overrides),
     retrieval |-> Or(overrides.retrieval, Some(Settings.core.retrieval)).val,
     collection |-> Or(overrides.collection, Some(DefaultCollection)).val,
     model |-> OrStr(overrides.model, Some(Settings.core.model)).val,
     embedding_dims |-> overrides.embedding_dims]

\* the entry of the organisation asked about, and of its agent, if configured
OrgEntry ==
    IF last.org \in DOMAIN last.req THEN last.req[last.org].base ELSE NoOverrides

AgentEntry ==
    IF last.org \in DOMAIN last.req /\ last.agent \in DOMAIN last.req[last.org].agents
    THEN last.req[last.org].agents[last.agent]
    ELSE NoOverrides

\* the agent's value if set, else the org's if set, else the default
Cascade(agent, org, default) ==
    IF agent.some THEN agent.val ELSE IF org.some THEN org.val ELSE default

\* the same with an empty string counted as not set
CascadeStr(agent, org, default) ==
    Cascade(OrStr(agent, None), OrStr(org, None), default)

CascadeOthers ==
    LET e == Effective(last.result) IN
    /\ e.write = Cascade(AgentEntry.write, OrgEntry.write, Settings.core.write)
    /\ e.retrieval = Cascade(AgentEntry.retrieval, OrgEntry.retrieval,
                             Settings.core.retrieval)
    /\ e.collection = Cascade(AgentEntry.collection, OrgEntry.collection,
                              Settings.core.collection)
    /\ e.embedding_dims = Or(AgentEntry.embedding_dims, OrgEntry.embedding_dims)

InitRerank ==
    /\ world \in {[rest_formula |-> TRUE], [rest_formula |-> FALSE]}
    /\ store = <<>>
    /\ now = 0
    /\ repositories = {}
    /\ collections = {}
    /\ indexes = <<>>
    /\ last = Idle
    /\ tasks = [c \in 1..MaxTasks |-> NoTask]
    /\ reranker_available = None
    /\ session = <<>>
    /\ jwks_cache = None
    /\ lock = FALSE

\* lines 157-181: the guard, the hasattr probe and the query handed to the client
RerankCall(c, org_id, agent_id, limit) ==
    /\ tasks[c].pc = "idle"
    /\ IF reranker_available = Some(FALSE)
       THEN /\ last' = Outcome("search_with_reranker", org_id, agent_id,
                               [limit |-> limit], None, <<>>, "")
            /\ UNCHANGED <<tasks, reranker_available>>
       ELSE IF ~world.rest_formula
       THEN /\ reranker_available' = Some(FALSE)
            /\ last' = Outcome("search_with_reranker", org_id, agent_id,
                               [limit |-> limit], None, <<>>, "")
            /\ UNCHANGED tasks
       ELSE /\ tasks' = [tasks EXCEPT ![c] =
                           [pc |-> "query_points", org |-> org_id, agent |-> agent_id,
                            limit |-> limit,
                            prefetch_limit |-> Min(Max(limit * 4, Max(limit, 1)), 128)]]
            /\ last' = Outcome("query_points", org_id, agent_id, [limit |-> limit],
                               <<>>, <<"qdrant.query_points">>, "")
            /\ UNCHANGED reranker_available
    /\ UNCHANGED <<store, now, repositories, collections, indexes, world, session,
                   jwks_cache, lock>>

\* lines 206-223: the except clause, or the flag set and the hits built
RerankReturn(c, raised) ==
    /\ tasks[c].pc = "query_points"
    /\ tasks' = [tasks EXCEPT ![c] = NoTask]
    /\ reranker_available' = Some(~raised)
    /\ last' = Outcome("search_with_reranker", tasks[c].org, tasks[c].agent,
                       [limit |-> tasks[c].limit],
                       IF raised THEN None ELSE Some(<<>>), <<>>, "")
    /\ UNCHANGED <<store, now, repositories, collections, indexes, world, session,
                   jwks_cache, lock>>

RerankCallNext ==
    \E c \in 1..MaxTasks, t \in {TenantA, TenantB}, limit \in {0, 1, 40} :
        RerankCall(c, t[1], t[2], limit)

RerankReturnNext == \E c \in 1..MaxTasks, raised \in BOOLEAN : RerankReturn(c, raised)

NextRerank ==
    \/ RerankCallNext
    \/ RerankReturnNext

SpecRerank == InitRerank /\ [][NextRerank]_vars

\* C22: once the flag is "unavailable" it stays so and no further formula
\* query is handed to the store, whatever the interleaving of the calls.
C22_UnavailableIsFinal ==
    [][reranker_available = Some(FALSE) =>
          /\ reranker_available' = Some(FALSE)
          /\ ~(last'.op = "query_points" /\ tasks' # tasks)]_vars

(***************************************************************************)
(* A tenant whose write policy sets max_batch to 2, and requests of one    *)
(* and of three texts that the write policy accepts, one of them twice.    *)
(***************************************************************************)
TenantD == <<"o3", "a1">>

WorldMaxBatch ==
    World({TenantD}, {"u1"},
          {Single(TextCall),
           [text |-> TextCall, messages |-> <<TextCall, TextTea>>]},
          {None}, {<<>>}, {AllFail})

InitMaxBatch == world = WorldMaxBatch /\ Fresh

SpecMaxBatch == InitMaxBatch /\ [][Next]_vars

\* C23: no add hands the embedding client more than write.max_batch texts.
C23_EmbedWithinMaxBatch ==
    (last.op = "add" /\ \E n \in DOMAIN last.calls : last.calls[n] = "tei.embed")
    => Len(last.req.texts)
          <= _build_policy_engine(_resolve_overrides(last.org, last.agent)).max_batch

(***************************************************************************)
(* core/security.py: validate_tenancy on its own, over the org the token   *)
(* gave (if any), the two headers (absent, empty or set) and the           *)
(* enforce_headers switch.                                                 *)
(***************************************************************************)
\* Python's truth of an optional string: neither None nor empty
Present(s) == s.some /\ s.val # ""

Raised(error) == [raised |-> error, result |-> <<>>]

\* validate_tenancy without the comparison of the two orgs
validate_tenancy_header_wins(enforce_headers, derived_org_id, header_org_id, header_agent_id) ==
    IF enforce_headers /\ ~Present(header_org_id) THEN Raised("AuthorizationError")
    ELSE IF enforce_headers /\ ~Present(header_agent_id)
    THEN Raised("AuthorizationError")
    ELSE LET org_id == OrStr(header_org_id, derived_org_id)
             agent_id == OrStr(header_agent_id, Some("default"))
         IN IF ~Present(org_id) THEN Raised("AuthorizationError")
            ELSE [raised |-> "", result |-> <<org_id.val, agent_id.val>>]

validate_tenancy(enforce_headers, derived_org_id, header_org_id, header_agent_id) ==
    IF enforce_headers /\ ~Present(header_org_id) THEN Raised("AuthorizationError")
    ELSE IF enforce_headers /\ ~Present(header_agent_id)
    THEN Raised("AuthorizationError")
    ELSE LET org_id == OrStr(header_org_id, derived_org_id)
             agent_id == OrStr(header_agent_id, Some("default"))
         IN IF ~Present(org_id) THEN Raised("AuthorizationError")
            ELSE IF /\ Present(derived_org_id) /\ Present(header_org_id)
                    /\ derived_org_id.val # header_org_id.val
            THEN Raised("AuthorizationError")
            ELSE [raised |-> "", result |-> <<org_id.val, agent_id.val>>]

OptionalIds(ids) == {None, Some("")} \cup {Some(i) : i \in ids}

InitTenancy ==
    /\ StoreIdle
    /\ now = 0
    /\ \E enforce_headers \in BOOLEAN, derived_org_id \in OptionalIds({"o1", "o2"}),
          header_org_id \in OptionalIds({"o1", "o2"}),
          header_agent_id \in OptionalIds({"a1"}) :
         last = Outcome("headers", "", "",
                        [enforce_headers |-> enforce_headers,
                         derived_org_id |-> derived_org_id,
                         header_org_id |-> header_org_id,
                         header_agent_id |-> header_agent_id],
                        <<>>, <<>>, "")

ValidateTenancy ==
    /\ last.op = "headers"
    /\ LET got == validate_tenancy(last.req.enforce_headers, last.req.derived_org_id,
                                   last.req.header_org_id, last.req.header_agent_id)
       IN last' = Outcome("validate_tenancy", "", "", last.req, got.result, <<>>,
                          got.raised)
    /\ UNCHANGED <<store, now, repositories, collections, indexes, world, tasks,
                   reranker_available, session,
                   jwks_cache, lock>>

SpecTenancy == InitTenancy /\ [][ValidateTenancy]_vars

\* C24: whenever validate_tenancy returns (org, agent), org is non-empty, it
\* is the token's org if the token gave one and the header's org if the
\* header gave one; two different orgs raise AuthorizationError; and with
\* enforce_headers it raises unless both headers are there.  An empty string
\* counts as no org and as no header.
C24_TenancyAgreesWithTokenAndHeader ==
    last.op = "validate_tenancy" =>
        /\ last.error = "" =>
              /\ last.result[1] # ""
              /\ Present(last.req.derived_org_id)
                    => last.result[1] = last.req.derived_org_id.val
              /\ Present(last.req.header_org_id)
                    => last.result[1] = last.req.header_org_id.val
        /\ (/\ Present(last.req.derived_org_id) /\ Present(last.req.header_org_id)
            /\ last.req.derived_org_id.val # last.req.header_org_id.val)
           => last.error = "AuthorizationError"
        /\ (last.req.enforce_headers
              /\ ~(Present(last.req.header_org_id) /\ Present(last.req.header_agent_id)))
           => last.error = "AuthorizationError"

\* a pair returned for a token and a header that name the same org
C24_Witness ==
    /\ last.op = "validate_tenancy"
    /\ last.error = ""
    /\ last.req.enforce_headers
    /\ last.req.derived_org_id = Some("o1")
    /\ last.result = <<"o1", "a1">>

(***************************************************************************)
(* core/security.py: authenticate on its own.  The configuration has a     *)
(* shared-secret map (org -> token) or not and a JWKS URL or not; the      *)
(* request has an Authorization header or not; `jwt` is what the JWKS      *)
(* endpoint and PyJWT make of a token that is no shared secret.            *)
(***************************************************************************)
BearerPrefix == <<"B", "e", "a", "r", "e", "r", " ">>

TokenSecret == <<"t", "o", "k", "1">>

TokenJwt == <<"e", "y", "J">>

\* the Authorization headers of the requests
Authorizations ==
    {None, Some(<<>>), Some(BearerPrefix \o TokenSecret),
     Some(BearerPrefix \o <<" ">> \o TokenSecret \o <<" ">>),
     Some(<<"B", "a", "s", "i", "c", " ">> \o TokenSecret),
     Some(BearerPrefix \o TokenJwt)}

\* lines 54-71: the outcomes of the JWKS fetch, the header parse and the decode
JwtOutcomes ==
    {[kind |-> "fetch_error"], [kind |-> "malformed"], [kind |-> "unknown_kid"],
     [kind |-> "invalid"], [kind |-> "valid", org_id |-> Some("o2")],
     [kind |-> "valid", org_id |-> None]}

Returned(value) == [raised |-> "", result |-> value]

\* the orgs whose shared secret the token is
TokenOrgs(shared_secrets, token) ==
    {org \in DOMAIN shared_secrets : shared_secrets[org] = token}

authenticate_jwt(jwt) ==
    CASE jwt.kind = "fetch_error" -> Raised("HTTPStatusError")
      [] jwt.kind = "malformed" -> Raised("DecodeError")
      [] jwt.kind = "unknown_kid" -> Raised("AuthenticationError")
      [] jwt.kind = "invalid" -> Raised("AuthenticationError")
      [] jwt.kind = "valid" ->
            Returned(Some(IF jwt.org_id.some THEN jwt.org_id.val ELSE "None"))

authenticate(config, authorization, jwt) ==
    IF ~authorization.some \/ authorization.val = <<>>
    THEN IF DOMAIN config.shared_secrets # {}
         THEN Raised("AuthenticationError")
         ELSE Returned(None)
    ELSE IF ~HasAt(authorization.val, 1, BearerPrefix)
    THEN Raised("AuthenticationError")
    ELSE LET token == Strip(SubSeq(authorization.val, Len(BearerPrefix) + 1,
                                   Len(authorization.val)))
         IN IF TokenOrgs(config.shared_secrets, token) # {}
            THEN Returned(Some(CHOOSE org \in TokenOrgs(config.shared_secrets, token) :
                                  TRUE))
            ELSE IF config.jwk_url.some THEN authenticate_jwt(jwt)
            ELSE Raised("AuthenticationError")

InitAuth ==
    /\ StoreIdle
    /\ now = 0
    /\ \E shared_secrets \in {<<>>, [org \in {"o1"} |-> TokenSecret]},
          jwk_url \in {None, Some("https://idp/jwks")},
          authorization \in Authorizations, jwt \in JwtOutcomes :
         last = Outcome("request", "", "",
                        [config |-> [shared_secrets |-> shared_secrets,
                                     jwk_url |-> jwk_url],
                         authorization |-> authorization, jwt |-> jwt],
                        <<>>, <<>>, "")

Authenticate ==
    /\ last.op = "request"
    /\ LET got == authenticate(last.req.config, last.req.authorization, last.req.jwt)
       IN last' = Outcome("authenticate", "", "", last.req, got.result, <<>>,
                          got.raised)
    /\ UNCHANGED <<store, now, repositories, collections, indexes, world, tasks,
                   reranker_available, session,
                   jwks_cache, lock>>

SpecAuth == InitAuth /\ [][Authenticate]_vars

\* C25: with a shared-secret map or a JWKS URL configured, authenticate
\* raises AuthenticationError for a request without an Authorization header.
C25_NoTokenNoEntry ==
    (/\ last.op = "authenticate"
     /\ DOMAIN last.req.config.shared_secrets # {} \/ last.req.config.jwk_url.some
     /\ last.req.authorization = None)
    => last.error = "AuthenticationError"

(***************************************************************************)
(* mcp_gw/server.py: _resolve_tenant and _resolve_user in one session.     *)
(* `session` is the identity cache kept on the session object; a call runs *)
(* up to its return, its ToolError or `await ctx.elicit(...)`, and resumes *)
(* with the client's answer.  `world.supports_elicitation` is the client's *)
(* capability.  Tool calls name o2, a2, u2; the client answers o1, a1, u1. *)
(***************************************************************************)
CacheGet(cache, key) == IF key \in DOMAIN cache THEN Some(cache[key]) ELSE None

CachePut(cache, key, value) ==
    [k \in DOMAIN cache \cup {key} |-> IF k = key THEN value ELSE cache[k]]

\* `if x: cache[key] = x  else: x = cache.get(key)`
CacheArg(cache, key, arg) == IF Present(arg) THEN CachePut(cache, key, arg.val) ELSE cache

InitSession ==
    /\ world \in {[supports_elicitation |-> TRUE], [supports_elicitation |-> FALSE]}
    /\ store = <<>>
    /\ now = 0
    /\ repositories = {}
    /\ collections = {}
    /\ indexes = <<>>
    /\ last = Idle
    /\ tasks = [c \in 1..MaxTasks |-> NoTask]
    /\ reranker_available = None
    /\ session = <<>>
    /\ jwks_cache = None
    /\ lock = FALSE

GatewayOutcome(op, step, args, result, calls, error) ==
    Outcome(op, "", "", [step |-> step, args |-> args], result, calls, error)

\* lines 131-159: the cache, the early return, the capability test
ResolveTenantCall(c, org_id, agent_id) ==
    LET cache == CacheArg(CacheArg(session, "org_id", org_id), "agent_id", agent_id)
        org == CacheGet(cache, "org_id")
        agent == CacheGet(cache, "agent_id")
        args == [org_id |-> org_id, agent_id |-> agent_id]
    IN /\ tasks[c].pc = "idle"
       /\ session' = cache
       /\ IF Present(org) /\ Present(agent)
          THEN /\ last' = GatewayOutcome("_resolve_tenant", "call", args,
                                         <<org.val, agent.val>>, <<>>, "")
               /\ UNCHANGED tasks
          ELSE IF ~world.supports_elicitation
          THEN /\ last' = GatewayOutcome("_resolve_tenant", "call", args, <<>>, <<>>,
                                         "ToolError")
               /\ UNCHANGED tasks
          ELSE /\ tasks' = [tasks EXCEPT ![c] =
                              [pc |-> "elicit_tenant", args |-> args, org_id |-> org,
                               agent_id |-> agent]]
               /\ last' = GatewayOutcome("elicit", "call", args, <<>>,
                                         <<"ctx.elicit">>, "")
       /\ UNCHANGED <<store, now, repositories, collections, indexes, world,
                      reranker_available,
                      jwks_cache, lock>>

\* a resumption that returns the identifiers without caching them
ResolveTenantForget(c, answer) ==
    LET t == tasks[c]
        org_id == IF Present(t.org_id) THEN t.org_id.val ELSE answer.org_id
        agent_id == IF Present(t.agent_id) THEN t.agent_id.val ELSE answer.agent_id
    IN /\ t.pc = "elicit_tenant"
       /\ tasks' = [tasks EXCEPT ![c] = NoTask]
       /\ IF answer.action # "accept"
          THEN last' = GatewayOutcome("_resolve_tenant", "resume", t.args, <<>>, <<>>,
                                      "ToolError")
          ELSE last' = GatewayOutcome("_resolve_tenant", "resume", t.args,
                                      <<org_id, agent_id>>, <<>>, "")
       /\ UNCHANGED <<store, now, repositories, collections, indexes, world,
                      reranker_available, session,
                      jwks_cache, lock>>

\* lines 161-181: the client's answer to the elicitation, the cache, the return
ResolveTenantReturn(c, answer) ==
    LET t == tasks[c]
        org_id == IF Present(t.org_id) THEN t.org_id.val ELSE answer.org_id
        agent_id == IF Present(t.agent_id) THEN t.agent_id.val ELSE answer.agent_id
    IN /\ t.pc = "elicit_tenant"
       /\ tasks' = [tasks EXCEPT ![c] = NoTask]
       /\ IF answer.action # "accept"
          THEN /\ last' = GatewayOutcome("_resolve_tenant", "resume", t.args, <<>>,
                                         <<>>, "ToolError")
               /\ UNCHANGED session
          ELSE /\ session' = CachePut(CachePut(session, "org_id", org_id),
                                      "agent_id", agent_id)
               /\ last' = GatewayOutcome("_resolve_tenant", "resume", t.args,
                                         <<org_id, agent_id>>, <<>>, "")
       /\ UNCHANGED <<store, now, repositories, collections, indexes, world,
                      reranker_available,
                      jwks_cache, lock>>

\* lines 184-199
ResolveUserCall(c, user_id) ==
    LET args == [user_id |-> user_id]
        cached == CacheGet(session, "user_id")
    IN /\ tasks[c].pc = "idle"
       /\ IF Present(user_id)
          THEN /\ session' = CachePut(session, "user_id", user_id.val)
               /\ last' = GatewayOutcome("_resolve_user", "call", args, user_id.val,
                                         <<>>, "")
               /\ UNCHANGED tasks
          ELSE IF Present(cached)
          THEN /\ last' = GatewayOutcome("_resolve_user", "call", args, cached.val,
                                         <<>>, "")
               /\ UNCHANGED <<tasks, session>>
          ELSE IF ~world.supports_elicitation
          THEN /\ last' = GatewayOutcome("_resolve_user", "call", args, "", <<>>,
                                         "ToolError")
               /\ UNCHANGED <<tasks, session>>
          ELSE /\ tasks' = [tasks EXCEPT ![c] = [pc |-> "elicit_user", args |-> args]]
               /\ last' = GatewayOutcome("elicit", "call", args, "",
                                         <<"ctx.elicit">>, "")
               /\ UNCHANGED session
       /\ UNCHANGED <<store, now, repositories, collections, indexes, world,
                      reranker_available,
                      jwks_cache, lock>>

\* lines 201-205
ResolveUserReturn(c, answer) ==
    LET t == tasks[c] IN
    /\ t.pc = "elicit_user"
    /\ tasks' = [tasks EXCEPT ![c] = NoTask]
    /\ IF answer.action # "accept"
       THEN /\ last' = GatewayOutcome("_resolve_user", "resume", t.args, "", <<>>,
                                      "ToolError")
            /\ UNCHANGED session
       ELSE /\ session' = CachePut(session, "user_id", answer.user_id)
            /\ last' = GatewayOutcome("_resolve_user", "resume", t.args,
                                      answer.user_id, <<>>, "")
    /\ UNCHANGED <<store, now, repositories, collections, indexes, world,
                   reranker_available,
                   jwks_cache, lock>>

\* what the client answers to an elicitation
Answers ==
    {[action |-> "decline"],
     [action |-> "accept", org_id |-> "o1", agent_id |-> "a1", user_id |-> "u1"]}

ResolveTenantCallNext ==
    \E c \in 1..MaxTasks, org_id \in OptionalIds({"o2"}),
       agent_id \in OptionalIds({"a2"}) :
        ResolveTenantCall(c, org_id, agent_id)

ResolveTenantReturnNext ==
    \E c \in 1..MaxTasks, answer \in Answers : ResolveTenantReturn(c, answer)

ResolveUserCallNext ==
    \E c \in 1..MaxTasks, user_id \in OptionalIds({"u2"}) : ResolveUserCall(c, user_id)

ResolveUserReturnNext ==
    \E c \in 1..MaxTasks, answer \in Answers : ResolveUserReturn(c, answer)

NextSession ==
    \/ ResolveTenantCallNext
    \/ ResolveTenantReturnNext
    \/ ResolveUserCallNext
    \/ ResolveUserReturnNext

SpecSession == InitSession /\ [][NextSession]_vars

\* the step is a call of the function, from its first line on
Called(op) == last'.req.step = "call" /\ last'.op \in {op, "elicit"}

TenantCached == {"org_id", "agent_id"} \subseteq DOMAIN session

\* C26: a call that omits the identifiers while the session has them cached
\* returns the cached ones, elicits nothing and leaves the cache alone;
\* whatever a call returns is cached from then on; an identifier passed
\* explicitly replaces the cached one; and a call with an identifier missing,
\* not cached and a client without elicitation fails with ToolError.  The
\* same for _resolve_user.
C26_SessionCachesIdentity ==
    [][/\ (/\ last'.op = "_resolve_tenant" /\ last'.req.step = "call"
           /\ TenantCached
           /\ ~Present(last'.req.args.org_id) /\ ~Present(last'.req.args.agent_id))
          => /\ last'.error = ""
             /\ last'.result = <<session["org_id"], session["agent_id"]>>
             /\ tasks' = tasks /\ session' = session
       /\ (last'.op = "_resolve_tenant" /\ last'.error = "")
          => /\ TenantCached'
             /\ last'.result = <<session'["org_id"], session'["agent_id"]>>
             /\ Present(last'.req.args.org_id)
                   => last'.result[1] = last'.req.args.org_id.val
             /\ Present(last'.req.args.agent_id)
                   => last'.result[2] = last'.req.args.agent_id.val
       /\ (/\ Called("_resolve_tenant")
           /\ "org_id" \in DOMAIN last'.req.args
           /\ ~world.supports_elicitation
           /\ \/ ~Present(last'.req.args.org_id) /\ "org_id" \notin DOMAIN session
              \/ ~Present(last'.req.args.agent_id) /\ "agent_id" \notin DOMAIN session)
          => last'.op = "_resolve_tenant" /\ last'.error = "ToolError"
       /\ (/\ last'.op = "_resolve_user" /\ last'.req.step = "call"
           /\ "user_id" \in DOMAIN session /\ ~Present(last'.req.args.user_id))
          => /\ last'.error = "" /\ last'.result = session["user_id"]
             /\ tasks' = tasks /\ session' = session
       /\ (last'.op = "_resolve_user" /\ last'.error = "")
          => /\ "user_id" \in DOMAIN session' /\ last'.result = session'["user_id"]
             /\ Present(last'.req.args.user_id)
                   => last'.result = last'.req.args.user_id.val
       /\ (/\ Called("_resolve_user") /\ "user_id" \in DOMAIN last'.req.args
           /\ ~world.supports_elicitation
           /\ ~Present(last'.req.args.user_id) /\ "user_id" \notin DOMAIN session)
          => last'.op = "_resolve_user" /\ last'.error = "ToolError"
      ]_vars

\* a call without identifiers answered from what the client was asked earlier
C26_Witness ==
    /\ last.op = "_resolve_tenant"
    /\ last.req.step = "call"
    /\ last.req.args = [org_id |-> None, agent_id |-> None]
    /\ last.result = <<"o1", "a1">>
    /\ \A c \in DOMAIN tasks : tasks[c] = NoTask

\* the calls of ensure_collection and _ensure_payload_indexes
LifecycleCalls ==
    {"qdrant.get_collections", "qdrant.create_collection", "qdrant.get_collection",
     "qdrant.delete_payload_index", "qdrant.create_payload_index"}

\* the key under which _get_repository caches the repository of a tenant
RepositoryKey(org_id, agent_id) ==
    LET policy == Or(_resolve_overrides(org_id, agent_id).collection,
                     Some(DefaultCollection)).val
    IN <<policy.name, policy.vector_size>>

\* C27: an operation that resolves a key the repository cache already holds
\* issues no collection-lifecycle call to the store.
C27_EnsureOnFirstUseOnly ==
    [][(now' = now /\ RepositoryKey(last'.org, last'.agent) \in repositories)
          => Range(last'.calls) \cap LifecycleCalls = {}]_vars

(***************************************************************************)
(* A tenant whose embedding_dims (512) is not the vector_size of its       *)
(* collection (768).                                                       *)
(***************************************************************************)
TenantE == <<"o4", "a1">>

WorldDims ==
    World({TenantE}, {"u1", "u2"}, {Single(TextCall)}, {None}, {<<>>, TextTea},
          {AllFail})

InitDims == world = WorldDims /\ Fresh

SpecDims == InitDims /\ [][Next]_vars

\* the embedding_dims in force for a tenant: the override, else the global one
EffectiveDims(org_id, agent_id) ==
    Or(_resolve_overrides(org_id, agent_id).embedding_dims,
       Some(Settings.core.embedding_dims)).val

\* C28: when the effective embedding_dims of a tenant differs from the
\* vector_size of its collection, the tenant's first add or search fails
\* and writes nothing to the store.
C28_DimsMismatchFails ==
    [][(/\ last.op \in {"init", "startup"}
        /\ last'.op \in {"add", "search"} /\ now' = now
        /\ EffectiveDims(last'.org, last'.agent)
              # RepositoryKey(last'.org, last'.agent)[2])
          => last'.error # "" /\ store' = store]_vars

\* C29: a search that names no k runs with the limit retrieval.top_k of its
\* tenant.  The requests of SearchNext that name a k name one of 0..MaxLimit,
\* so a request with k = DEFAULT_K is one that named none.
C29_OmittedKUsesTopK ==
    (last.op = "search" /\ last.error = "" /\ last.req.request.k = DEFAULT_K)
    => last.req.limit = _resolve_top_k(_resolve_overrides(last.org, last.agent))

\* the values of the enum MemoryScope
MemoryScope == {"prefs", "facts", "persona", "constraints"}

\* C30: the scope of every stored record is one of the MemoryScope values.
C30_StoredScopesAreClosed ==
    \A i \in DOMAIN store : store[i].payload.scope \in MemoryScope

\* C31: when the embedding call of an add or of an update fails, the step
\* leaves the store as it was: no record of the batch is upserted and the
\* record under update keeps its text, payload, vector and updated_at.
C31_FailedEmbedLeavesStore ==
    [][(/\ last'.op \in {"add", "update"} /\ now' = now
        /\ last'.error = "RetryError"
        /\ "tei.embed" \in Range(last'.calls))
          => store' = store]_vars

\* an update with a new text whose embedding failed, the record still there
\* with its old text
C31_Witness ==
    /\ last.op = "update"
    /\ last.error = "RetryError"
    /\ last.req.request.text # <<>>
    /\ last.req.id \in DOMAIN store
    /\ store[last.req.id].payload.text # last.req.request.text
    /\ store[last.req.id].payload.updated_at < now

(***************************************************************************)
(* ensure_collection of one repository under concurrent requests, one step *)
(* per client call: get_collections (EnsureList), create_collection        *)
(* (EnsureCreate), get_collection (EnsureSchema) and the index calls of    *)
(* one field (EnsureIndex).  Each call reads or changes the store's        *)
(* `collections` and `indexes`; what a request read earlier it keeps in    *)
(* its task.  The store refuses to create a collection that exists.        *)
(***************************************************************************)
InitEnsure ==
    /\ world = WorldUsers
    /\ store = <<>>
    /\ now = 0
    /\ repositories = {<<DefaultCollection.name, DefaultCollection.vector_size>>}
    /\ \/ collections = {} /\ indexes = <<>>
       \/ collections = {DefaultCollection.name}
          /\ indexes = [f \in {"org_id"} |-> FALSE]
    /\ last = Idle
    /\ tasks = [c \in 1..MaxTasks |-> NoTask]
    /\ reranker_available = None
    /\ session = <<>>
    /\ jwks_cache = None
    /\ lock = FALSE

EnsureStep(c, calls, error) ==
    Outcome("ensure_collection", "", "", [task |-> c], <<>>, calls, error)

\* lines 63-65: the names are read and compared
EnsureList(c) ==
    /\ tasks[c].pc = "idle"
    /\ tasks' = [tasks EXCEPT ![c] =
                    [pc |-> IF DefaultCollection.name \in collections THEN "schema"
                            ELSE "create"]]
    /\ last' = EnsureStep(c, <<"qdrant.get_collections">>, "")
    /\ UNCHANGED <<store, now, repositories, collections, indexes, world,
                   reranker_available, session,
                   jwks_cache, lock>>

\* lines 66-73
EnsureCreate(c) ==
    /\ tasks[c].pc = "create"
    /\ IF DefaultCollection.name \in collections
       THEN /\ tasks' = [tasks EXCEPT ![c] = NoTask]
            /\ last' = EnsureStep(c, <<"qdrant.create_collection">>,
                                  "UnexpectedResponse")
            /\ UNCHANGED <<collections, indexes>>
       ELSE /\ tasks' = [tasks EXCEPT ![c] = [pc |-> "schema"]]
            /\ collections' = collections \cup {DefaultCollection.name}
            /\ indexes' = <<>>
            /\ last' = EnsureStep(c, <<"qdrant.create_collection">>, "")
    /\ UNCHANGED <<store, now, repositories, world, reranker_available, session,
                   jwks_cache, lock>>

\* lines 80-84
EnsureSchema(c) ==
    /\ tasks[c].pc = "schema"
    /\ tasks' = [tasks EXCEPT ![c] =
                    [pc |-> "indexes", schema |-> indexes, fields |-> REQUIRED_INDEXES]]
    /\ last' = EnsureStep(c, <<"qdrant.get_collection">>, "")
    /\ UNCHANGED <<store, now, repositories, collections, indexes, world,
                   reranker_available, session,
                   jwks_cache, lock>>

\* lines 102-125: one turn of the loop, or the return after the last one
EnsureIndex(c) ==
    LET t == tasks[c] IN
    /\ t.pc = "indexes"
    /\ IF t.fields = <<>>
       THEN /\ tasks' = [tasks EXCEPT ![c] = NoTask]
            /\ last' = EnsureStep(c, <<>>, "")
            /\ UNCHANGED indexes
       ELSE LET f == Head(t.fields)
                calls == IndexCalls(<<f>>, t.schema)
            IN /\ tasks' = [tasks EXCEPT ![c].fields = Tail(t.fields)]
               /\ last' = EnsureStep(c, calls, "")
               /\ indexes' = IF calls = <<>> THEN indexes
                             ELSE [g \in DOMAIN indexes \cup {f} |->
                                     IF g = f THEN f = "org_id" ELSE indexes[g]]
    /\ UNCHANGED <<store, now, repositories, collections, world,
                   reranker_available, session,
                   jwks_cache, lock>>

EnsureListNext == \E c \in 1..MaxTasks : EnsureList(c)

EnsureCreateNext == \E c \in 1..MaxTasks : EnsureCreate(c)

EnsureSchemaNext == \E c \in 1..MaxTasks : EnsureSchema(c)

EnsureIndexNext == \E c \in 1..MaxTasks : EnsureIndex(c)

NextEnsure ==
    \/ EnsureListNext
    \/ EnsureCreateNext
    \/ EnsureSchemaNext
    \/ EnsureIndexNext

SpecEnsure == InitEnsure /\ [][NextEnsure]_vars

\* C32: create_collection is invoked at most once for a collection name,
\* whatever the interleaving: no request invokes it for a collection that
\* another request has created in the meantime.
C32_CreateCollectionOnce ==
    [][(tasks' # tasks /\ "qdrant.create_collection" \in Range(last'.calls))
          => DefaultCollection.name \notin collections]_vars

(***************************************************************************)
(* core/security.py: _fetch_jwks under concurrent authenticate calls, with *)
(* a JWKS URL configured.  `lock` is self._lock, `jwks_cache` is           *)
(* self._jwks_cache.  A call that finds the lock taken waits for it; the   *)
(* call that holds it and finds no cache awaits the GET; the endpoint      *)
(* answers with a key set or the GET raises.  Each call carries a token    *)
(* signed with the key `kid`, which authenticate looks up in the keys.     *)
(***************************************************************************)
InitJwks ==
    /\ world = WorldUsers
    /\ store = <<>>
    /\ now = 0
    /\ repositories = {}
    /\ collections = {}
    /\ indexes = <<>>
    /\ last = Idle
    /\ tasks = [c \in 1..MaxTasks |-> NoTask]
    /\ reranker_available = None
    /\ session = <<>>
    /\ jwks_cache = None
    /\ lock = FALSE

FetchOutcome(c, kid, result, calls, error) ==
    Outcome("_fetch_jwks", "", "", [task |-> c, kid |-> kid], result, calls, error)

\* lines 55-60: authenticate with the keys _fetch_jwks returned
FetchedKeys(c, kid, keys, calls) ==
    FetchOutcome(c, kid, Some(keys), calls,
                 IF kid \in keys THEN "" ELSE "AuthenticationError")

\* lines 29-33, with the lock in hand: the cached keys, or the GET is sent
FetchLocked(c, kid) ==
    IF jwks_cache.some
    THEN /\ tasks' = [tasks EXCEPT ![c] = NoTask]
         /\ last' = FetchedKeys(c, kid, jwks_cache.val, <<>>)
         /\ lock' = FALSE
    ELSE /\ tasks' = [tasks EXCEPT ![c] = [pc |-> "get", kid |-> kid]]
         /\ last' = FetchOutcome(c, kid, None, <<"httpx.get">>, "")
         /\ lock' = TRUE

\* a call that does not take the lock
FetchCallUnlocked(c, kid) ==
    /\ tasks[c].pc = "idle"
    /\ FetchLocked(c, kid)
    /\ UNCHANGED <<store, now, repositories, collections, indexes, world,
                   reranker_available, session, jwks_cache>>

\* lines 26-29: the call reaches `async with self._lock`
FetchCall(c, kid) ==
    /\ tasks[c].pc = "idle"
    /\ IF lock
       THEN /\ tasks' = [tasks EXCEPT ![c] = [pc |-> "lock", kid |-> kid]]
            /\ last' = FetchOutcome(c, kid, None, <<>>, "")
            /\ UNCHANGED lock
       ELSE FetchLocked(c, kid)
    /\ UNCHANGED <<store, now, repositories, collections, indexes, world,
                   reranker_available, session, jwks_cache>>

\* a waiting call gets the lock
FetchAcquire(c) ==
    /\ tasks[c].pc = "lock"
    /\ ~lock
    /\ FetchLocked(c, tasks[c].kid)
    /\ UNCHANGED <<store, now, repositories, collections, indexes, world,
                   reranker_available, session, jwks_cache>>

\* lines 33-38: the GET raises, or its keys are cached and returned
FetchReturn(c, reply) ==
    /\ tasks[c].pc = "get"
    /\ tasks' = [tasks EXCEPT ![c] = NoTask]
    /\ lock' = FALSE
    /\ IF reply.kind = "error"
       THEN /\ last' = FetchOutcome(c, tasks[c].kid, None, <<>>, "HTTPStatusError")
            /\ UNCHANGED jwks_cache
       ELSE /\ jwks_cache' = Some(reply.keys)
            /\ last' = FetchedKeys(c, tasks[c].kid, reply.keys, <<>>)
    /\ UNCHANGED <<store, now, repositories, collections, indexes, world,
                   reranker_available, session>>

\* what the JWKS endpoint answers: its keys change over time
JwksReplies ==
    {[kind |-> "error"], [kind |-> "ok", keys |-> {}], [kind |-> "ok", keys |-> {"kid1"}],
     [kind |-> "ok", keys |-> {"kid2"}], [kind |-> "ok", keys |-> {"kid1", "kid2"}]}

FetchCallNext ==
    \E c \in 1..MaxTasks, kid \in {"kid1", "kid2", "kid9"} : FetchCall(c, kid)

FetchAcquireNext == \E c \in 1..MaxTasks : FetchAcquire(c)

FetchReturnNext == \E c \in 1..MaxTasks, reply \in JwksReplies : FetchReturn(c, reply)

NextJwks ==
    \/ FetchCallNext
    \/ FetchAcquireNext
    \/ FetchReturnNext

SpecJwks == InitJwks /\ [][NextJwks]_vars

\* C33: the JWKS cache is filled at most once: a GET is sent only while the
\* cache is empty and no other GET is in flight, a filled cache never
\* changes, every call that gets keys gets the cached ones, and a GET that
\* raises leaves the cache empty.
C33_JwksFetchedOnce ==
    [][/\ "httpx.get" \in Range(last'.calls)
          => /\ ~jwks_cache.some
             /\ \A c \in DOMAIN tasks : tasks[c].pc # "get"
       /\ jwks_cache.some => jwks_cache' = jwks_cache
       /\ last'.result.some => last'.result = jwks_cache'
       /\ last'.error = "HTTPStatusError" => ~jwks_cache.some /\ ~jwks_cache'.some
      ]_vars

\* a call answered from the cache after a GET that raised and one that did not
C33_Witness ==
    /\ last.op = "_fetch_jwks"
    /\ last.calls = <<>>
    /\ last.error = ""
    /\ last.result = Some({"kid1"})
    /\ jwks_cache = Some({"kid1"})
    /\ \A c \in DOMAIN tasks : tasks[c].pc = "idle"

(***************************************************************************)
(* add and the records of other users                                      *)
(***************************************************************************)
\* the stored records add's upsert would have to leave alone: those of a
\* user other than the caller
OthersRecords(user_id) == {i \in DOMAIN store : store[i].payload.user_id # user_id}

\* C34: an add issued for user u never overwrites or removes a stored record
\* whose user_id is a different user: such a record is still stored after the
\* add, with its original payload.
C34_AddKeepsOtherUsersRecords ==
    [][(last'.op = "add" /\ now' = now)
          => \A i \in OthersRecords(last'.req.request.user_id) :
                /\ i \in DOMAIN store'
                /\ store'[i].payload = store[i].payload]_vars

(***************************************************************************)
(* make_id and the tenants of one collection                               *)
(***************************************************************************)
\* two tenancy pairs whose identifiers hold the "::" that make_id joins with
TenantF == <<"a::b", "c">>

TenantG == <<"a", "b::c">>

ReplyCall == [n \in 1..ATTEMPTS |-> ReplyOk(ContentJsonTea)]

\* both organisations run with the defaults: the chat endpoint normalizes
WorldNames ==
    World({TenantF, TenantG}, {"u1"}, {Single(TextCall)}, {None}, {<<>>},
          {ReplyCall})

InitNames == world = WorldNames /\ Fresh

SpecNames == InitNames /\ [][Next]_vars

\* the stored records of the tenancy pairs other than (org_id, agent_id)
OtherTenantsRecords(org_id, agent_id) ==
    {i \in DOMAIN store :
        <<store[i].payload.org_id, store[i].payload.agent_id>> # <<org_id, agent_id>>}

\* C35: distinct (org_id, agent_id) pairs give distinct names to the namespace
\* of make_id, so an add under one pair never overwrites a record stored
\* under another pair of the same collection.
C35_TenantsNeverShareIds ==
    [][/\ \A t1, t2 \in world.tenants :
            t1 # t2 => NamespaceName(t1[1], t1[2]) # NamespaceName(t2[1], t2[2])
       /\ (last'.op = "add" /\ now' = now)
             => \A i \in OtherTenantsRecords(last'.org, last'.agent) :
                   i \in DOMAIN store' /\ store'[i] = store[i]]_vars

\* the second half alone: no add writes over a record of another pair
C35_AddKeepsOtherTenantsRecords ==
    [][(last'.op = "add" /\ now' = now)
          => \A i \in OtherTenantsRecords(last'.org, last'.agent) :
                i \in DOMAIN store' /\ store'[i] = store[i]]_vars

(***************************************************************************)
(* the records add answers with                                            *)
(***************************************************************************)
\* C36: every record returned by add has a text that passed the policy filter
\* in that call and the user_id of the request, whatever adds and updates
\* came before and whatever the identifiers and texts are.
C36_AddReturnsOwnTexts ==
    (last.op = "add" /\ last.error = "")
       => \A n \in 1..Len(last.result) :
             /\ last.result[n].text \in Range(last.req.texts)
             /\ last.result[n].payload.user_id = last.req.request.user_id

\* C37: every record returned by add is live: it is stored with deleted =
\* false, and so visible to a default list / search_text, even if the same
\* text was added and soft-deleted earlier.
C37_AddReturnsLiveRecords ==
    (last.op = "add" /\ last.error = "")
       => \A n \in 1..Len(last.result) :
             /\ last.result[n].id \in DOMAIN store
             /\ store[last.result[n].id].payload.deleted = FALSE
             /\ ListFilter(store[last.result[n].id], last.org, last.agent, FALSE)

(***************************************************************************)
(* update and delete of one record running concurrently.  Each call is a   *)
(* coroutine that gives way at its awaits: the get, the embedding of a new *)
(* text, the second get of soft_delete and the write.  The record is put   *)
(* there by an add that runs before the calls start.                       *)
(***************************************************************************)
WorldWrites ==
    World({TenantA}, {"u1"}, {Single(TextCall)}, {None, Some("prefs")},
          {<<>>, TextTea}, {AllFail})

InitWrites ==
    /\ world = WorldWrites
    /\ store = <<>>
    /\ now = 0
    /\ repositories = {}
    /\ \/ collections = {} /\ indexes = <<>>
       \/ collections = {DefaultCollection.name}
          /\ indexes = [f \in {"org_id"} |-> FALSE]
    /\ last = Idle
    /\ tasks = [c \in 1..MaxTasks |-> NoTask]
    /\ reranker_available = None
    /\ session = <<>>
    /\ jwks_cache = None
    /\ lock = FALSE

\* the call of coroutine c is over
Returned38(c, op, req, error) ==
    tasks' = [tasks EXCEPT ![c] = [pc |-> "returned", op |-> op, id |-> req.id,
                                   req |-> req, error |-> error]]

\* update, lines 201-220: the get, the tenancy check and the patch
UpdateGet(c, org_id, agent_id, memory_id, request) ==
    LET e == Ensured(_resolve_overrides(org_id, agent_id))
        record == get(store, memory_id)
        req == [id |-> memory_id, request |-> request]
    IN /\ tasks[c].pc = "idle"
       /\ EnsureRepository(e)
       /\ UNCHANGED <<store, now>>
       /\ IF ~record.some \/ Foreign(record.val, org_id, agent_id)
          THEN /\ Returned38(c, "update", req, "NotFoundError")
               /\ last' = Outcome("update", org_id, agent_id, req, <<>>,
                                  e.calls \o <<"qdrant.retrieve">>, "NotFoundError")
          ELSE /\ tasks' = [tasks EXCEPT ![c] =
                              [pc |-> IF request.text # <<>> THEN "embed" ELSE "write",
                               op |-> "update", org |-> org_id, agent |-> agent_id,
                               id |-> memory_id, req |-> req,
                               record |-> Patched(record.val, request, now)]]
               /\ last' = last

\* update, line 223: `await self._tei.embed([record.text])`
UpdateEmbed(c, embed_ok) ==
    LET t == tasks[c] IN
    /\ t.pc = "embed"
    /\ UNCHANGED <<store, now, repositories, collections, indexes>>
    /\ IF embed_ok
       THEN /\ tasks' = [tasks EXCEPT ![c].pc = "write",
                                      ![c].record.vector = Some(Embed(t.record.text))]
            /\ last' = last
       ELSE /\ Returned38(c, "update", t.req, "RetryError")
            /\ last' = Outcome("update", t.org, t.agent, t.req, <<>>,
                               <<"tei.embed">>, "RetryError")

\* update, lines 225-228: the upsert or the set_payload of the patched record
UpdateWrite(c) ==
    LET t == tasks[c] IN
    /\ t.pc = "write"
    /\ store' = IF t.req.request.text # <<>> THEN upsert(store, <<t.record>>)
                ELSE set_payload(store, t.record)
    /\ Returned38(c, "update", t.req, "")
    /\ last' = Outcome("update", t.org, t.agent, t.req, <<t.record>>,
                       IF t.req.request.text # <<>> THEN <<"qdrant.upsert">>
                       ELSE <<"qdrant.set_payload">>, "")
    /\ UNCHANGED <<now, repositories, collections, indexes>>

\* delete, lines 231-237: the get and the tenancy check
DeleteGet(c, org_id, agent_id, memory_id, hard) ==
    LET e == Ensured(_resolve_overrides(org_id, agent_id))
        record == get(store, memory_id)
        req == [id |-> memory_id, hard |-> hard]
    IN /\ tasks[c].pc = "idle"
       /\ EnsureRepository(e)
       /\ UNCHANGED <<store, now>>
       /\ IF ~record.some \/ Foreign(record.val, org_id, agent_id)
          THEN /\ Returned38(c, "delete", req, "NotFoundError")
               /\ last' = Outcome("delete", org_id, agent_id, req, <<>>,
                                  e.calls \o <<"qdrant.retrieve">>, "NotFoundError")
          ELSE /\ tasks' = [tasks EXCEPT ![c] =
                              [pc |-> IF hard THEN "delete" ELSE "soft",
                               op |-> "delete", org |-> org_id, agent |-> agent_id,
                               id |-> memory_id, req |-> req]]
               /\ last' = last

\* delete, line 239: `await repository.delete(memory_id)`
DeleteHard(c) ==
    LET t == tasks[c] IN
    /\ t.pc = "delete"
    /\ store' = delete_many(store, <<t.id>>)
    /\ Returned38(c, "delete", t.req, "")
    /\ last' = Outcome("delete", t.org, t.agent, t.req, <<>>, <<"qdrant.delete">>, "")
    /\ UNCHANGED <<now, repositories, collections, indexes>>

\* soft_delete, lines 333-337: its own get, then the flag and the time are set
\* on the record it fetched
SoftDeleteGet(c) ==
    LET t == tasks[c]
        record == get(store, t.id)
    IN /\ t.pc = "soft"
       /\ UNCHANGED <<store, now, repositories, collections, indexes>>
       /\ IF ~record.some
          THEN /\ Returned38(c, "delete", t.req, "")
               /\ last' = Outcome("delete", t.org, t.agent, t.req, <<>>,
                                  <<"qdrant.retrieve">>, "")
          ELSE /\ tasks' = [tasks EXCEPT ![c] =
                              [pc |-> "softwrite", op |-> "delete", org |-> t.org,
                               agent |-> t.agent, id |-> t.id, req |-> t.req,
                               record |-> [record.val EXCEPT
                                             !.payload.deleted = TRUE,
                                             !.payload.updated_at = now]]]
               /\ last' = last

\* soft_delete, line 338: `await self.set_payload(record)`
SoftDeleteWrite(c) ==
    LET t == tasks[c] IN
    /\ t.pc = "softwrite"
    /\ store' = set_payload(store, t.record)
    /\ Returned38(c, "delete", t.req, "")
    /\ last' = Outcome("delete", t.org, t.agent, t.req, <<>>,
                       <<"qdrant.set_payload">>, "")
    /\ UNCHANGED <<now, repositories, collections, indexes>>

\* an add that runs while no update or delete has started
AddBefore ==
    /\ \A c \in DOMAIN tasks : tasks[c].pc = "idle"
    /\ store = <<>>
    /\ \E t \in world.tenants, u \in world.users, a \in world.adds :
          Add(t[1], t[2], AddRequest(u, a.text, a.messages, None), AllFail, TRUE,
              <<>>)
    /\ UNCHANGED <<world, tasks, reranker_available, session, jwks_cache, lock>>

UpdateGetNext ==
    \E c \in 1..MaxTasks, t \in world.tenants, i \in Ids, text \in world.edits,
       sc \in world.scopes, deleted \in {None, Some(FALSE)} :
        /\ UpdateGet(c, t[1], t[2], i, UpdateRequest(text, sc, deleted))
        /\ UNCHANGED <<world, reranker_available, session, jwks_cache, lock>>

UpdateEmbedNext ==
    \E c \in 1..MaxTasks, embed_ok \in BOOLEAN :
        /\ UpdateEmbed(c, embed_ok)
        /\ UNCHANGED <<world, reranker_available, session, jwks_cache, lock>>

UpdateWriteNext ==
    \E c \in 1..MaxTasks :
        /\ UpdateWrite(c)
        /\ UNCHANGED <<world, reranker_available, session, jwks_cache, lock>>

DeleteGetNext ==
    \E c \in 1..MaxTasks, t \in world.tenants, i \in Ids, hard \in BOOLEAN :
        /\ DeleteGet(c, t[1], t[2], i, hard)
        /\ UNCHANGED <<world, reranker_available, session, jwks_cache, lock>>

DeleteHardNext ==
    \E c \in 1..MaxTasks :
        /\ DeleteHard(c)
        /\ UNCHANGED <<world, reranker_available, session, jwks_cache, lock>>

SoftDeleteGetNext ==
    \E c \in 1..MaxTasks :
        /\ SoftDeleteGet(c)
        /\ UNCHANGED <<world, reranker_available, session, jwks_cache, lock>>

SoftDeleteWriteNext ==
    \E c \in 1..MaxTasks :
        /\ SoftDeleteWrite(c)
        /\ UNCHANGED <<world, reranker_available, session, jwks_cache, lock>>

NextWrites ==
    \/ AddBefore
    \/ UpdateGetNext
    \/ UpdateEmbedNext
    \/ UpdateWriteNext
    \/ DeleteGetNext
    \/ DeleteHardNext
    \/ SoftDeleteGetNext
    \/ SoftDeleteWriteNext
    \/ Tick

SpecWrites == InitWrites /\ [][NextWrites]_vars

\* coroutine c has completed the call `op` without raising
Completed(c, op) ==
    tasks[c].pc = "returned" /\ tasks[c].op = op /\ tasks[c].error = ""

\* the stored point has what the patch of `request` wrote
Carries(point, request) ==
    /\ request.text # <<>> =>
          /\ point.payload.text = request.text
          /\ point.vector = Some(Embed(request.text))
    /\ request.scope.some => point.payload.scope = request.scope.val

\* C38: a completed soft delete is not lost to a concurrent update whose patch
\* does not set deleted: once both have completed, whatever their
\* interleaving, the record has deleted = true and the fields the update wrote.
C38_SoftDeleteSurvivesUpdate ==
    \A c, d \in DOMAIN tasks :
        (/\ Completed(c, "update") /\ Completed(d, "delete")
         /\ ~tasks[d].req.hard
         /\ tasks[c].id = tasks[d].id
         /\ ~tasks[c].req.request.deleted.some)
           => /\ tasks[c].id \in DOMAIN store
              /\ store[tasks[c].id].payload.deleted = TRUE
              /\ Carries(store[tasks[c].id], tasks[c].req.request)

\* C39: a hard-deleted record stays removed: once delete(id, hard=true) has
\* completed the id is absent from the store (no add runs after it here),
\* also when an update of that id had fetched the record before the delete
\* and re-embeds a changed text.
C39_HardDeleteStays ==
    \A d \in DOMAIN tasks :
        (Completed(d, "delete") /\ tasks[d].req.hard)
           => tasks[d].id \notin DOMAIN store

(***************************************************************************)
(* search_text one scroll at a time.  The coroutine gives way at            *)
(* _get_repository and at every `await self._client.scroll`; the store     *)
(* holds the points of ScanPoints, named by their rank in scroll order.    *)
(***************************************************************************)
InitScroll ==
    /\ world = WorldUsers
    /\ now = 0
    /\ repositories = {}
    /\ collections = {}
    /\ indexes = <<>>
    /\ last = Idle
    /\ tasks = <<NoTask>>
    /\ reranker_available = None
    /\ session = <<>>
    /\ jwks_cache = None
    /\ lock = FALSE
    /\ \E size \in {0, 2, PAGE_SIZE, 2 * PAGE_SIZE + 3},
          hits \in {{}, {1, 2}, {1, PAGE_SIZE + 1, 2 * PAGE_SIZE + 3}},
          gone \in {0, 1} :
        store = ScanPoints([size |-> size, hits |-> hits, gone |-> gone, alien |-> 0])

\* the ids the scroll filter admits, in scroll order
ScrollStream(t) ==
    SelectSeq([i \in 1..Len(store) |-> i],
              LAMBDA i : ListFilter(store[i], t.org, t.agent, t.req.include_deleted))

\* `while len(records) < limit`, after the page that brought `records`,
\* `offset` and `ended`: the loop goes on or search_text returns
ScrollOn(c, t, records, offset, scrolls, ended) ==
    LET end == IF ended # "" THEN ended
               ELSE IF ~(Len(records) < t.req.limit) THEN "limit" ELSE ""
    IN IF end = ""
       THEN /\ tasks' = [tasks EXCEPT ![c] = [t EXCEPT !.pc = "while",
                                                       !.records = records,
                                                       !.offset = offset,
                                                       !.scrolls = scrolls]]
            /\ last' = last
       ELSE /\ tasks' = [tasks EXCEPT ![c] = [t EXCEPT !.pc = "returned",
                                                       !.records = records,
                                                       !.offset = offset,
                                                       !.scrolls = scrolls,
                                                       !.end = end]]
            /\ last' = Outcome("search_text", t.org, t.agent, t.req, records,
                               Repeat("qdrant.scroll", scrolls), "")

\* services.py 286-303 and qdrant_repository.py 412-432: up to the first test
\* of the while loop
ScrollCall(c, org_id, agent_id, query, limit, include_deleted) ==
    LET e == Ensured(_resolve_overrides(org_id, agent_id))
        t == [pc |-> "while", org |-> org_id, agent |-> agent_id,
              req |-> [query |-> query, limit |-> limit,
                       include_deleted |-> include_deleted],
              records |-> <<>>, offset |-> None, scrolls |-> 0, end |-> ""]
    IN /\ tasks[c].pc = "idle"
       /\ EnsureRepository(e)
       /\ ScrollOn(c, t, <<>>, None, 0, "")
       /\ UNCHANGED <<store, now>>

\* a loop without `if offset is None: break`: after the last page the scroll
\* is given no offset and starts from the first point again
ScrollPageNoBreak(c) ==
    LET t == tasks[c]
        stream == ScrollStream(t)
        from == IF t.offset.some THEN t.offset.val ELSE 1
        page == SubSeq(stream, from, Min(from + PAGE_SIZE - 1, Len(stream)))
        offset == IF from + PAGE_SIZE > Len(stream) THEN None
                  ELSE Some(from + PAGE_SIZE)
        records == ScanPage(store, page, Lower(t.req.query), t.req.limit, t.records)
        scrolls == Min(t.scrolls + 1, Len(store) + 1)
    IN /\ t.pc = "while"
       /\ IF page = <<>> THEN ScrollOn(c, t, t.records, offset, scrolls, "empty")
          ELSE IF Len(records) >= t.req.limit
          THEN ScrollOn(c, t, records, offset, scrolls, "limit")
          ELSE ScrollOn(c, t, records, offset, scrolls, "")
       /\ UNCHANGED <<store, now, repositories, collections, indexes>>

\* lines 433-452: one scroll and the for loop over its page
ScrollPage(c) ==
    LET t == tasks[c]
        stream == ScrollStream(t)
        from == IF t.offset.some THEN t.offset.val ELSE 1
        page == SubSeq(stream, from, Min(from + PAGE_SIZE - 1, Len(stream)))
        offset == IF from + PAGE_SIZE > Len(stream) THEN None
                  ELSE Some(from + PAGE_SIZE)
        records == ScanPage(store, page, Lower(t.req.query), t.req.limit, t.records)
    IN /\ t.pc = "while"
       /\ IF page = <<>> THEN ScrollOn(c, t, t.records, offset, t.scrolls + 1, "empty")
          ELSE IF Len(records) >= t.req.limit
          THEN ScrollOn(c, t, records, offset, t.scrolls + 1, "limit")
          ELSE IF ~offset.some THEN ScrollOn(c, t, records, offset, t.scrolls + 1, "null")
          ELSE ScrollOn(c, t, records, offset, t.scrolls + 1, "")
       /\ UNCHANGED <<store, now, repositories, collections, indexes>>

\* the limits of the calls: none, one page's worth and more than the tenant has
ScrollLimits == {-1, 0, 1, 2, 3}

ScrollCallNext ==
    \E c \in DOMAIN tasks, limit \in ScrollLimits, include_deleted \in BOOLEAN :
        /\ ScrollCall(c, TenantA[1], TenantA[2], <<"c", "A", "L", "L">>, limit,
                      include_deleted)
        /\ UNCHANGED <<world, reranker_available, session, jwks_cache, lock>>

ScrollPageNext ==
    \E c \in DOMAIN tasks :
        /\ ScrollPage(c)
        /\ UNCHANGED <<world, reranker_available, session, jwks_cache, lock>>

NextScroll ==
    \/ ScrollCallNext
    \/ ScrollPageNext

\* the event loop resumes a coroutine whose awaited scroll has answered
SpecScroll == InitScroll /\ [][NextScroll]_vars /\ WF_vars(NextScroll)

\* search_text has returned for the reason it names
ScrollEnded(t) ==
    /\ t.end \in {"limit", "empty", "null"}
    /\ t.end = "limit" => Len(t.records) >= t.req.limit
    /\ t.end = "null" => ~t.offset.some
    /\ t.req.limit <= 0 => t.records = <<>> /\ t.scrolls = 0
    /\ t.scrolls = 0 => t.req.limit <= 0
    /\ Len(t.records) <= Max(t.req.limit, 0)

\* C40: search_text terminates for every limit and every finite tenant: the
\* scroll loop ends once limit matches are collected or the store returns an
\* empty page or a null next-page offset, and with limit <= 0 it returns an
\* empty list without any scroll call.
C40_SearchTextTerminates ==
    /\ (tasks[1].pc = "while") ~> (tasks[1].pc = "returned")
    /\ [](\A c \in DOMAIN tasks :
             /\ tasks[c].pc = "returned" =>
                   /\ ScrollEnded(tasks[c])
                   /\ tasks[c].records
                         = search_text(store, [i \in 1..Len(store) |-> i],
                                       tasks[c].org, tasks[c].agent,
                                       tasks[c].req.query, tasks[c].req.limit,
                                       tasks[c].req.include_deleted).records
             /\ tasks[c].pc = "while" => Len(tasks[c].records) < tasks[c].req.limit)

\* a search that went through all three pages of the tenant and found less
\* than its limit
C40_Witness ==
    /\ tasks[1].pc = "returned"
    /\ tasks[1].scrolls = 3
    /\ tasks[1].end = "null"
    /\ Len(tasks[1].records) = 2
    /\ tasks[1].req.limit = 3
    /\ last.op = "search_text" /\ Len(last.calls) = 3

====
